---- MODULE Spec2Model ----
(***************************************************************************)
(* cc-proxy: the affinity store (cache_affinity.rs) and the routing engine *)
(* (router.rs) as a state machine.                                         *)
(*                                                                         *)
(* Every section that the code runs under the store's or the registry's    *)
(* tokio RwLock without an await inside is one atomic action.  The places  *)
(* where a task can be suspended (waiting for a lock, waiting for the      *)
(* upstream) separate the actions.  Time is the value current_time()       *)
(* returns, counted in whole ticks.                                        *)
(***************************************************************************)
EXTENDS Naturals, Sequences, FiniteSets, TLC

VARIABLES
    now,               \* what current_time() returns
    store,             \* CacheAffinityManager.store: key -> CacheAffinity
    cached_providers,  \* Router.cached_providers: Vec<ResolvedProvider>
    provider_json,     \* the provider list the last successful load_providers() returned
    req,               \* the route_request tasks: position and locals
    cl,                \* tasks calling the store or the router directly: position and locals
    hist,              \* per key: what happened to the key since its last set (history)
    cleaned,           \* the cleanup task's last pass: removed / remaining (its log line)
    started            \* calls issued so far

vars == <<now, store, cached_providers, provider_json, req, cl, hist, cleaned, started>>

\* ------------------------------------------------------------------ bounds
MaxTime == 2
MaxCalls == 3
MaxRequests == 2
MaxEntries == 2

\* CacheAffinityManager.default_ttl, in ticks
default_ttl == 2

\* Option::None
None == "None"

\* ------------------------------------------------------- cache_affinity.rs
generate_key(user_id, kind, model) == user_id \o ":" \o kind \o ":" \o model

\* hash_string: SHA-256, first 8 bytes, hex.  The digests of the inputs used here.
hash_string(input) ==
    CASE input = "sk-user-a" -> "73fdacc20712638b"
      [] input = "sk-user-b" -> "6326fed7776ec28a"
      [] input = "" -> "e3b0c44298fc1c14"
      [] input = "bearer sk-user-a" -> "ff47730fa4c23612"
      [] input = "sk-user-<e9>" -> "e904f8411a0c399d"    \* the bytes sk-user- and 0xE9

\* get, line 44: the expiry test
IsExpiredLate(t, affinity) == t > affinity.expire_at
IsExpired(t, affinity) == t >= affinity.expire_at

\* get, lines 38-54: what get finds under the read lock at time t
GetLookup(st, key, t) ==
    IF key \notin DOMAIN st THEN [tag |-> "absent", provider_id |-> None]
    ELSE IF IsExpired(t, st[key]) THEN [tag |-> "expired", provider_id |-> None]
    ELSE [tag |-> "valid", provider_id |-> st[key].provider_id]

\* get, lines 47-48: store.remove(key) under the write lock
GetRemove(st, key) == [k \in DOMAIN st \ {key} |-> st[k]]

\* get, lines 60-62: request_count += 1 if the key is (still) there
GetCountAll(st, key) ==
    IF key \in DOMAIN st
    THEN [k \in DOMAIN st |-> [st[k] EXCEPT !.request_count = @ + 1]]
    ELSE st
GetCountForgotten(st, key) == st
GetCount(st, key) ==
    IF key \in DOMAIN st
    THEN [st EXCEPT ![key].request_count = @ + 1]
    ELSE st

\* set, lines 80-85: the record set builds from the time it read
NewAffinity(provider_id, t) ==
    [provider_id |-> provider_id, expire_at |-> t + default_ttl, request_count |-> 1]

\* set, lines 87-88: store.insert(key, affinity)
SetInsertKeepExisting(st, key, affinity) ==
    [k \in DOMAIN st \cup {key} |-> IF k \in DOMAIN st THEN st[k] ELSE affinity]
SetInsert(st, key, affinity) ==
    [k \in DOMAIN st \cup {key} |-> IF k = key THEN affinity ELSE st[k]]

\* invalidate, lines 100-101: store.remove(key)
InvalidateNoRemove(st, key) == st
Invalidate(st, key) == [k \in DOMAIN st \ {key} |-> st[k]]

\* start_cleanup_task, line 118: store.retain(|_, a| a.expire_at > now)
CleanupRetainCounted(st, t) ==
    [k \in {x \in DOMAIN st : st[x].expire_at > t \/ st[x].request_count > 1} |-> st[k]]
CleanupRetainLate(st, t) == [k \in {x \in DOMAIN st : st[x].expire_at >= t} |-> st[k]]
CleanupRetain(st, t) == [k \in {x \in DOMAIN st : st[x].expire_at > t} |-> st[k]]

\* ------------------------------------------------- callers of the store API
\* Tasks that call get / set / invalidate directly, as the unit tests of
\* cache_affinity.rs do.
Clients == {"c1", "c2"}
StoreKeys ==
    { generate_key(hash_string("sk-user-a"), "claude", "m1"),
      generate_key("anonymous", "claude", "m1") }
StoreProviderIds == {"claude::https://a.example", "claude::https://b.example"}

NoHist ==
    [set_p |-> None, set_t |-> 0, und |-> FALSE, inv |-> FALSE,
     gets |-> 0, taint |-> FALSE, conc |-> FALSE, over |-> "none"]
IdleClient ==
    [pc |-> "idle", op |-> "none", key |-> None, arg |-> None, t |-> 0,
     ret |-> None, stale |-> FALSE]

\* a call has returned: only its name and its result stay
Returned(r) == [IdleClient EXCEPT !.op = r.op, !.key = r.key, !.ret = r.ret]

\* what a key's record looks like at time t: "absent", "expired" or "valid"
TagOf(st, key, t) ==
    IF key \notin DOMAIN st THEN "absent"
    ELSE IF t >= st[key].expire_at THEN "expired" ELSE "valid"

\* get(key), lines 38-54: the read lock, the lookup, current_time(), the test
ApiGet(c, k) ==
    /\ cl[c].pc = "idle"
    /\ started < MaxCalls
    /\ LET look == GetLookup(store, k, now) IN
       /\ cl' = [cl EXCEPT ![c] =
                   CASE look.tag = "absent" ->
                          [IdleClient EXCEPT !.op = "get", !.key = k]
                     [] look.tag = "expired" ->
                          [IdleClient EXCEPT !.op = "get", !.pc = "get_remove", !.key = k]
                     [] look.tag = "valid" ->
                          [IdleClient EXCEPT !.op = "get", !.pc = "get_count", !.key = k,
                                             !.ret = look.provider_id]]
       /\ hist' = [hist EXCEPT ![k].conc =
                   @ \/ (look.tag = "valid" /\ \E d \in Clients \ {c} :
                           cl[d].pc = "get_count" /\ cl[d].key = k /\ ~cl[d].stale)]
    /\ started' = started + 1
    /\ UNCHANGED <<now, store, cached_providers, provider_json, req, cleaned>>

\* get, lines 46-50: the write lock, store.remove(key), return None
ApiGetRemove(c) ==
    /\ cl[c].pc = "get_remove"
    /\ store' = GetRemove(store, cl[c].key)
    /\ cl' = [cl EXCEPT ![c] = Returned(cl[c])]
    /\ hist' = [hist EXCEPT ![cl[c].key].und = @ /\ ~cl[c].stale]
    /\ UNCHANGED <<now, cached_providers, provider_json, req, cleaned, started>>

\* get, lines 57-71: the write lock, the counter, return Some(provider_id)
ApiGetCount(c) ==
    /\ cl[c].pc = "get_count"
    /\ store' = GetCount(store, cl[c].key)
    /\ cl' = [cl EXCEPT ![c] = Returned(cl[c])]
    /\ hist' = IF cl[c].key \notin DOMAIN store THEN hist
               ELSE IF cl[c].stale THEN [hist EXCEPT ![cl[c].key].taint = TRUE]
               ELSE [hist EXCEPT ![cl[c].key].gets = @ + 1]
    /\ UNCHANGED <<now, cached_providers, provider_json, req, cleaned, started>>

\* set(key, provider_id), line 80: current_time() is read before the write lock
ApiSet(c, k, p) ==
    /\ cl[c].pc = "idle"
    /\ started < MaxCalls
    /\ cl' = [cl EXCEPT ![c] =
                [IdleClient EXCEPT !.pc = "set_insert", !.op = "set", !.key = k,
                                   !.arg = p, !.t = now]]
    /\ started' = started + 1
    /\ UNCHANGED <<now, store, cached_providers, provider_json, req, hist, cleaned>>

\* set, lines 87-88: the write lock, store.insert
ApiSetInsert(c) ==
    /\ cl[c].pc = "set_insert"
    /\ LET k == cl[c].key IN
       /\ store' = SetInsert(store, k, NewAffinity(cl[c].arg, cl[c].t))
       /\ cl' = [d \in Clients |->
                   IF d = c
                   THEN Returned(cl[c])
                   ELSE IF cl[d].pc \in {"get_remove", "get_count"} /\ cl[d].key = k
                   THEN [cl[d] EXCEPT !.stale = TRUE]
                   ELSE cl[d]]
       /\ hist' = [hist EXCEPT ![k] =
                     [NoHist EXCEPT !.set_p = cl[c].arg, !.set_t = cl[c].t, !.und = TRUE,
                                    !.over = TagOf(store, k, now)]]
    /\ UNCHANGED <<now, cached_providers, provider_json, req, cleaned, started>>

\* invalidate(key), lines 100-103
ApiInvalidate(c, k) ==
    /\ cl[c].pc = "idle"
    /\ started < MaxCalls
    /\ store' = Invalidate(store, k)
    /\ cl' = [cl EXCEPT ![c] =
                [IdleClient EXCEPT !.op = "invalidate", !.key = k]]
    /\ hist' = [hist EXCEPT ![k].und = FALSE, ![k].inv = TRUE]
    /\ started' = started + 1
    /\ UNCHANGED <<now, cached_providers, provider_json, req, cleaned>>

\* start_cleanup_task, lines 112-127: one pass of the loop
CleanupTask ==
    /\ store' = CleanupRetain(store, now)
    /\ LET removed == Cardinality(DOMAIN store) - Cardinality(DOMAIN store') IN
         cleaned' = IF removed > 0
                    THEN [removed |-> removed, remaining |-> Cardinality(DOMAIN store')]
                    ELSE cleaned
    /\ UNCHANGED <<now, cached_providers, provider_json, req, cl, hist, started>>

\* current_time() advances
Tick ==
    /\ now < MaxTime
    /\ now' = now + 1
    /\ UNCHANGED <<store, cached_providers, provider_json, req, cl, hist, cleaned, started>>

StoreInit ==
    /\ now = 0
    /\ store = <<>>
    /\ cached_providers = <<>>
    /\ provider_json = <<>>
    /\ req = <<>>
    /\ cl = [c \in Clients |-> IdleClient]
    /\ hist = [k \in StoreKeys |-> NoHist]
    /\ cleaned = [removed |-> 0, remaining |-> 0]
    /\ started = 0

StoreNext ==
    \/ \E c \in Clients, k \in StoreKeys : ApiGet(c, k)
    \/ \E c \in Clients : ApiGetRemove(c)
    \/ \E c \in Clients : ApiGetCount(c)
    \/ \E c \in Clients, k \in StoreKeys, p \in StoreProviderIds : ApiSet(c, k, p)
    \/ \E c \in Clients : ApiSetInsert(c)
    \/ \E c \in Clients, k \in StoreKeys : ApiInvalidate(c, k)
    \/ CleanupTask
    \/ Tick

StoreSpec == StoreInit /\ [][StoreNext]_vars

\* start_cleanup_task, lines 107-130: the spawned loop never ends, its ticker
\* fires again and again and the write lock is granted in turn, so a pass that
\* has something to remove is not put off forever
CleanupFairness == WF_vars(CleanupTask)

StoreLiveSpec == StoreInit /\ [][StoreNext]_vars /\ CleanupFairness

\* --------------------------------------------- get, lock by lock
\* The same get, with the store's lock made visible: store is one
\* RwLock<HashMap> (line 16), so a guard is a guard on the whole map.  A task is
\* at read_wait / write_wait while its store.read().await / store.write().await
\* has not returned, and holds the guard from then to the end of the section.
ReadHolders == {c \in Clients : cl[c].pc = "reading"}
WriteHolders == {c \in Clients : cl[c].pc \in {"removing", "counting"}}

\* get(key), line 38: store.read().await is called
LockGetCall(c, k) ==
    /\ cl[c].pc = "idle"
    /\ started < MaxCalls
    /\ cl' = [cl EXCEPT ![c] = [IdleClient EXCEPT !.op = "get", !.pc = "read_wait", !.key = k]]
    /\ started' = started + 1
    /\ UNCHANGED <<now, store, cached_providers, provider_json, req, hist, cleaned>>

\* RwLock::read: granted while no task holds the write guard
LockReadAcquire(c) ==
    /\ cl[c].pc = "read_wait"
    /\ WriteHolders = {}
    /\ cl' = [cl EXCEPT ![c].pc = "reading"]
    /\ UNCHANGED <<now, store, cached_providers, provider_json, req, hist, cleaned, started>>

\* get, lines 40-56 and 72-75: the lookup under the read guard, and the guard's end
LockGetLookup(c) ==
    /\ cl[c].pc = "reading"
    /\ LET look == GetLookup(store, cl[c].key, now) IN
       cl' = [cl EXCEPT ![c] =
                CASE look.tag = "absent" -> Returned(cl[c])
                  [] look.tag = "expired" -> [@ EXCEPT !.pc = "write_wait", !.arg = "remove"]
                  [] look.tag = "valid" -> [@ EXCEPT !.pc = "write_wait", !.arg = "count",
                                                      !.ret = look.provider_id]]
    /\ UNCHANGED <<now, store, cached_providers, provider_json, req, hist, cleaned, started>>

\* RwLock::write, lines 47 and 60: granted while no task holds any guard
LockWriteAcquire(c) ==
    /\ cl[c].pc = "write_wait"
    /\ ReadHolders = {} /\ WriteHolders = {}
    /\ cl' = [cl EXCEPT ![c].pc = IF cl[c].arg = "remove" THEN "removing" ELSE "counting"]
    /\ UNCHANGED <<now, store, cached_providers, provider_json, req, hist, cleaned, started>>

\* get, lines 48-50: store.remove(key), return None, the write guard ends
LockGetRemove(c) ==
    /\ cl[c].pc = "removing"
    /\ store' = GetRemove(store, cl[c].key)
    /\ cl' = [cl EXCEPT ![c] = Returned(cl[c])]
    /\ UNCHANGED <<now, cached_providers, provider_json, req, hist, cleaned, started>>

\* get, lines 61-71: the counter, return Some(provider_id), the write guard ends
LockGetCount(c) ==
    /\ cl[c].pc = "counting"
    /\ store' = GetCount(store, cl[c].key)
    /\ cl' = [cl EXCEPT ![c] = Returned(cl[c])]
    /\ UNCHANGED <<now, cached_providers, provider_json, req, hist, cleaned, started>>

\* set, lines 87-88: the insert needs the write guard
LockSetInsert(c) ==
    /\ ReadHolders = {} /\ WriteHolders = {}
    /\ ApiSetInsert(c)

LockNext ==
    \/ \E c \in Clients, k \in StoreKeys : LockGetCall(c, k)
    \/ \E c \in Clients : LockReadAcquire(c)
    \/ \E c \in Clients : LockGetLookup(c)
    \/ \E c \in Clients : LockWriteAcquire(c)
    \/ \E c \in Clients : LockGetRemove(c)
    \/ \E c \in Clients : LockGetCount(c)
    \/ \E c \in Clients, k \in StoreKeys, p \in StoreProviderIds : ApiSet(c, k, p)
    \/ \E c \in Clients : LockSetInsert(c)
    \/ Tick

LockSpec == StoreInit /\ [][LockNext]_vars

\* ---------------------------------------------------------------- provider.rs
\* Provider::get_platform_config: the sub-config of the kind, else the shared pair
\* Option<PlatformConfig>
NoConfig == [some |-> FALSE]
SomeConfig(api_url, api_key) == [some |-> TRUE, api_url |-> api_url, api_key |-> api_key]

get_platform_configSharedFirst(provider, kind) ==
    LET platform_config == IF kind = "codex" THEN provider.codex
                           ELSE IF kind = "claude" THEN provider.claude
                           ELSE NoConfig
    IN IF /\ provider.api_url # None /\ provider.api_key # None
          /\ provider.api_url # "" /\ provider.api_key # ""
       THEN SomeConfig(provider.api_url, provider.api_key)
       ELSE platform_config
get_platform_config(provider, kind) ==
    LET platform_config == IF kind = "codex" THEN provider.codex
                           ELSE IF kind = "claude" THEN provider.claude
                           ELSE NoConfig
    IN IF platform_config.some THEN platform_config
       ELSE IF /\ provider.api_url # None /\ provider.api_key # None
               /\ provider.api_url # "" /\ provider.api_key # ""
            THEN SomeConfig(provider.api_url, provider.api_key)
            ELSE NoConfig

\* ------------------------------------------------------------------ router.rs
\* flatten_providers, line 88: the kinds, in the order of the inner loop
Kinds == <<"codex", "claude">>

\* flatten_providers, lines 89-98: what one provider entry resolves to for one kind
ResolveKind(provider, kind) ==
    LET config == get_platform_config(provider, kind) IN
    IF config.some /\ config.api_url # "" /\ config.api_key # ""
    THEN << [kind |-> kind, api_url |-> config.api_url, api_key |-> config.api_key,
             name |-> provider.name, level |-> provider.level] >>
    ELSE << >>

\* flatten_providers, lines 84-104
RECURSIVE flatten_providers(_)
flatten_providers(providers) ==
    IF providers = << >> THEN << >>
    ELSE LET provider == Head(providers) IN
         (IF provider.enabled
          THEN ResolveKind(provider, Kinds[1]) \o ResolveKind(provider, Kinds[2])
          ELSE << >>) \o flatten_providers(Tail(providers))

\* provider_id, lines 250-252
provider_id(provider) == provider.kind \o "::" \o provider.api_url

\* route_request, lines 140-144: the providers of the kind, in registry order
RECURSIVE FilterKind(_, _)
RECURSIVE FilterKindByLevel(_, _)
FilterKindByLevel(list, kind) ==
    IF list = << >> THEN << >>
    ELSE LET p == Head(list)
             rest == FilterKindByLevel(Tail(list), kind)
         IN IF p.kind # kind THEN rest
            ELSE SelectSeq(rest, LAMBDA q : q.level < p.level) \o << p >>
                 \o SelectSeq(rest, LAMBDA q : q.level >= p.level)
FilterAnyKind(list, kind) == list
FilterKind(list, kind) ==
    IF list = << >> THEN << >>
    ELSE (IF Head(list).kind = kind THEN << Head(list) >> ELSE << >>)
         \o FilterKind(Tail(list), kind)

\* route_request, lines 162-164: providers.iter().find(id == cached_id), 0 if none
FindCachedOrFirst(providers, cached_id) ==
    LET hits == {i \in 1..Len(providers) : provider_id(providers[i]) = cached_id}
    IN IF cached_id = None THEN 0
       ELSE IF hits = {} THEN 1
       ELSE CHOOSE i \in hits : \A j \in hits : i <= j
FindCachedLast(providers, cached_id) ==
    LET hits == {i \in 1..Len(providers) : provider_id(providers[i]) = cached_id}
    IN IF cached_id = None \/ hits = {} THEN 0
       ELSE CHOOSE i \in hits : \A j \in hits : j <= i
FindCachedAtHead(providers, cached_id) ==
    IF cached_id # None /\ providers # << >> /\ provider_id(providers[1]) = cached_id
    THEN 1 ELSE 0
FindCached(providers, cached_id) ==
    LET hits == {i \in 1..Len(providers) : provider_id(providers[i]) = cached_id}
    IN IF cached_id = None \/ hits = {} THEN 0
       ELSE CHOOSE i \in hits : \A j \in hits : i <= j

\* route_request, line 204: the sweep skips the cached provider it already tried
IsSkippedNever(cached_id, provider) == FALSE
IsSkipped(cached_id, provider) == cached_id # None /\ cached_id = provider_id(provider)

\* route_request, lines 202-206: the next provider the sweep attempts from
\* position idx on, 0 when the loop is over
NextCandidateBackwards(providers, cached_id, idx) ==
    LET left == {i \in 1..Len(providers) :
                   /\ Len(providers) + 1 - i >= idx
                   /\ ~IsSkipped(cached_id, providers[i])}
    IN IF left = {} THEN 0 ELSE CHOOSE i \in left : \A j \in left : i >= j
NextCandidate(providers, cached_id, idx) ==
    LET left == {i \in idx..Len(providers) : ~IsSkipped(cached_id, providers[i])}
    IN IF left = {} THEN 0 ELSE CHOOSE i \in left : \A j \in left : i <= j

\* route_request, lines 189-196: where a failed sticky attempt goes next
AfterStickyFailureNoInvalidate == "sweep"
AfterStickyFailure == "invalidate"

\* ------------------------------------------------- headers (http::HeaderMap)
\* A header map is a sequence of [name, value]; a value is its bytes: text, and
\* obs = TRUE when a byte outside visible ASCII follows the text (obs-text, which
\* HeaderValue::from_bytes accepts and HeaderValue::to_str rejects).
HV(text) == [text |-> text, obs |-> FALSE]
ObsValue(text) == [text |-> text, obs |-> TRUE]

\* HeaderValue::to_str, called at router.rs lines 341, 369 and 425
to_str(value) == [ok |-> ~value.obs, str |-> value.text]

\* str::to_ascii_lowercase, called at router.rs lines 280 and 357: A-Z become
\* a-z, every other character stays
AsciiUppercase == "ABCDEFGHIJKLMNOPQRSTUVWXYZ"
AsciiLowercase == "abcdefghijklmnopqrstuvwxyz"
LowercaseOf ==
    [c \in {SubSeq(AsciiUppercase, i, i) : i \in 1..26} |->
        LET i == CHOOSE i \in 1..26 : SubSeq(AsciiUppercase, i, i) = c
        IN SubSeq(AsciiLowercase, i, i)]
RECURSIVE to_ascii_lowercase(_)
to_ascii_lowercase(str) ==
    IF str = "" THEN ""
    ELSE LET c == SubSeq(str, 1, 1)
         IN (IF c \in DOMAIN LowercaseOf THEN LowercaseOf[c] ELSE c)
            \o to_ascii_lowercase(SubSeq(str, 2, Len(str)))

\* str::eq_ignore_ascii_case, called at router.rs lines 368, 370 and 380
eq_ignore_ascii_case(a, b) == to_ascii_lowercase(a) = to_ascii_lowercase(b)

\* str::contains, called at router.rs line 342
contains(str, pat) ==
    \E i \in 1..(Len(str) + 1) :
        i + Len(pat) - 1 <= Len(str) /\ SubSeq(str, i, i + Len(pat) - 1) = pat

\* the header map the HTTP library builds from the header lines of a message:
\* names are stored in lower case
RECURSIVE ParseHeaders(_)
ParseHeaders(lines) ==
    IF lines = << >> THEN << >>
    ELSE << [name |-> to_ascii_lowercase(Head(lines).name), value |-> Head(lines).value] >>
         \o ParseHeaders(Tail(lines))

\* HeaderMap::get: the first value of the name, as Option
HeaderGet(map, name) ==
    LET at == {i \in 1..Len(map) : map[i].name = name}
    IN IF at = {} THEN [some |-> FALSE]
       ELSE [some |-> TRUE, value |-> map[CHOOSE i \in at : \A j \in at : i <= j].value]

\* HeaderMap::insert: replaces the values the name had
HeaderInsert(map, name, value) ==
    SelectSeq(map, LAMBDA h : h.name # name) \o << [name |-> name, value |-> value] >>

\* route_request, lines 120-123: request_json["model"].as_str().unwrap_or("unknown")
ModelOf(body) == IF body.model # None THEN body.model ELSE "unknown"

\* extract_user_id, lines 423-431
RECURSIVE trim_start(_)
trim_start(str) ==
    IF Len(str) > 0 /\ SubSeq(str, 1, 1) = " " THEN trim_start(SubSeq(str, 2, Len(str)))
    ELSE str
RECURSIVE trim_end(_)
trim_end(str) ==
    IF Len(str) > 0 /\ SubSeq(str, Len(str), Len(str)) = " "
    THEN trim_end(SubSeq(str, 1, Len(str) - 1))
    ELSE str
strip_prefix_or(str, prefix) ==
    IF Len(str) >= Len(prefix) /\ SubSeq(str, 1, Len(prefix)) = prefix
    THEN SubSeq(str, Len(prefix) + 1, Len(str))
    ELSE str
extract_user_id(headers) ==
    LET auth == HeaderGet(headers, "authorization") IN
    IF auth.some /\ to_str(auth.value).ok
    THEN hash_string(trim_end(trim_start(strip_prefix_or(to_str(auth.value).str, "Bearer "))))
    ELSE "anonymous"

\* ------------------------------------------------------ router.rs: try_provider
\* try_provider, line 276: the inbound headers that are replaced, never copied
IsReplaced(key) == key = "host" \/ key = "authorization"

\* try_provider, lines 281-290 and 356-365
is_hop_by_hopNoUpgrade(lower) ==
    lower \in {"connection", "proxy-connection", "keep-alive", "transfer-encoding",
               "te", "trailers"}
is_hop_by_hop(lower) ==
    lower \in {"connection", "proxy-connection", "keep-alive", "transfer-encoding",
               "upgrade", "te", "trailers"}

\* try_provider, lines 275-301: the loop over the inbound headers
RECURSIVE CopyRequestHeaders(_, _)
CopyRequestHeaders(headers, req_headers) ==
    IF headers = << >> THEN req_headers
    ELSE LET key == Head(headers).name
             lower == to_ascii_lowercase(key)
         IN CopyRequestHeaders(Tail(headers),
                IF IsReplaced(key) \/ is_hop_by_hop(lower) \/ lower = "content-length"
                THEN req_headers
                ELSE HeaderInsert(req_headers, key, Head(headers).value))

\* try_provider, lines 274-315: the headers of the request sent upstream
request_headersPassThrough(provider, headers) == headers
request_headers(provider, headers) ==
    LET copied == CopyRequestHeaders(headers, << >>)
        with_key == HeaderInsert(copied, "authorization", HV("Bearer " \o provider.api_key))
    IN IF HeaderGet(with_key, "accept").some THEN with_key
       ELSE HeaderInsert(with_key, "accept", HV("application/json"))

\* try_provider, lines 318-346: why the attempt fails, None when it does not.
\* up is what the upstream did: nothing (transport failure), or a response with
\* status, header map and body.
attempt_error(up) ==
    IF ~up.sent THEN "Failed to send request to provider"
    ELSE IF ~(up.status >= 200 /\ up.status <= 299) THEN "Provider returned error status"
    ELSE IF HeaderGet(up.headers, "x-tengine-error").some THEN "Provider blocked by WAF"
    ELSE LET content_type == HeaderGet(up.headers, "content-type") IN
         IF /\ content_type.some
            /\ to_str(content_type.value).ok
            /\ ~contains(to_str(content_type.value).str, "application/json")
            /\ ~contains(to_str(content_type.value).str, "text/event-stream")
         THEN "Provider returned non-JSON content-type"
         ELSE None

\* try_provider, lines 368-376: this header says the body is gzip-encoded
IsGzipHeaderExact(h) ==
    /\ eq_ignore_ascii_case(h.name, "content-encoding")
    /\ to_str(h.value).ok
    /\ to_str(h.value).str = "gzip"
IsGzipHeader(h) ==
    /\ eq_ignore_ascii_case(h.name, "content-encoding")
    /\ to_str(h.value).ok
    /\ eq_ignore_ascii_case(to_str(h.value).str, "gzip")

\* try_provider, lines 353-376: has_gzip_encoding after the loop
has_gzip_encoding(headers) == \E i \in 1..Len(headers) : IsGzipHeader(headers[i])

\* try_provider, lines 352-389: the headers of the response handed to the caller
response_headers(headers) ==
    SelectSeq(headers,
              LAMBDA h : /\ ~IsGzipHeader(h)
                         /\ ~is_hop_by_hop(to_ascii_lowercase(h.name))
                         /\ ~eq_ignore_ascii_case(h.name, "content-length"))

\* A body is the data it stands for and the codings applied to it, outermost
\* first: << "gzip" >> is gzip(data).  GzipDecoder, lines 399-404, removes an
\* outer gzip coding; on anything else the decoded stream is an error.
GzipDecoder(body) ==
    IF body.codings # << >> /\ Head(body.codings) = "gzip"
    THEN [data |-> body.data, codings |-> Tail(body.codings), decoded |-> TRUE]
    ELSE [data |-> "invalid gzip header", codings |-> << >>, decoded |-> TRUE]

\* try_provider, lines 391-417: the body handed to the caller
response_body(up) ==
    IF has_gzip_encoding(up.headers) THEN GzipDecoder(up.body)
    ELSE [data |-> up.body.data, codings |-> up.body.codings, decoded |-> FALSE]

\* Option<Response>: none
NoResponse == [some |-> FALSE]

\* try_provider, lines 263-420: the request it sends and what it returns
try_provider(provider, headers, up) ==
    LET error == attempt_error(up) IN
    [ok |-> error = None,
     error |-> error,
     request |-> [headers |-> request_headers(provider, headers)],
     response |-> IF error = None
                  THEN [some |-> TRUE, status |-> up.status,
                        headers |-> response_headers(up.headers), body |-> response_body(up)]
                  ELSE NoResponse]

\* ------------------------------------------------------------------ server.rs
\* server.rs line 12
MAX_BODY_BYTES == 5 * 1024 * 1024

\* axum::body::to_bytes(body, MAX_BODY_BYTES), line 56: fails when the body is
\* longer than the limit or cannot be read to its end
to_bytes(body, limit) == [ok |-> body.complete /\ body.len <= limit]

\* serde_json's text of a string: quotes and backslashes are escaped
RECURSIVE json_escape(_)
json_escape(str) ==
    IF str = "" THEN ""
    ELSE LET c == SubSeq(str, 1, 1)
         IN (IF c = "\"" \/ c = "\\" THEN "\\" \o c ELSE c)
            \o json_escape(SubSeq(str, 2, Len(str)))
json_stringRaw(str) == "\"" \o str \o "\""
json_string(str) == "\"" \o json_escape(str) \o "\""

\* error_response, router.rs lines 435-445
error_response(status, message) ==
    [some |-> TRUE, status |-> status,
     headers |-> << [name |-> "content-type", value |-> HV("application/json")] >>,
     body |-> [data |-> "{\"error\":" \o json_string(message) \o "}",
               codings |-> << >>, decoded |-> FALSE]]

\* route_request's Err, lines 117, 148 and 243-247, as Display prints it
route_error(outcome, kind, model, n) ==
    CASE outcome = "parse_error" -> "Failed to parse request body as JSON"
      [] outcome = "no_providers" ->
           "No providers available for " \o kind \o " model: " \o model
      [] outcome = "all_failed" ->
           "All " \o ToString(n) \o " providers failed for model: " \o model

\* handle_request, lines 56-81: what the caller receives
handle_request(outcome, kind, model, n, response) ==
    CASE outcome = "too_large" ->
           error_response(413, "Request body too large")
      [] outcome = "ok" -> response
      [] OTHER ->
           error_response(502, "All providers failed: "
                                \o route_error(outcome, kind, model, n))

\* what load_providers can return: two configuration files, or an error
NoProvider ==
    [enabled |-> TRUE, level |-> 0, name |-> None, api_url |-> None, api_key |-> None,
     codex |-> NoConfig, claude |-> NoConfig]
ConfigA ==
    << [NoProvider EXCEPT !.level = 2, !.name = "first",
           !.claude = SomeConfig("https://a.example", "key-a1")],
       [NoProvider EXCEPT !.level = 1,
           !.api_url = "https://b.example", !.api_key = "key-b"],
       [NoProvider EXCEPT !.enabled = FALSE,
           !.claude = SomeConfig("https://c.example", "key-c")],
       [NoProvider EXCEPT
           !.claude = SomeConfig("https://a.example", "key-a2")] >>
ConfigB ==
    << [NoProvider EXCEPT !.level = 5,
           !.claude = SomeConfig("https://c.example", "key-c2"),
           !.codex = SomeConfig("", "key-c2")],
       [NoProvider EXCEPT !.level = 7,
           !.claude = SomeConfig("https://a.example", "key-a3")] >>
LoadError == [ok |-> FALSE]
LoadResults == {[ok |-> TRUE, providers |-> ConfigA], [ok |-> TRUE, providers |-> ConfigB],
                LoadError}

\* the requests that arrive
Tasks == {"t1", "t2"}
Bodies == { [len |-> 2, complete |-> TRUE, json |-> FALSE, model |-> None],
            [len |-> 64, complete |-> TRUE, json |-> TRUE, model |-> "m1"] }
Headers ==
    { ParseHeaders(<< [name |-> "Host", value |-> HV("proxy.local")],
                      [name |-> "Authorization", value |-> HV("Bearer sk-user-a")],
                      [name |-> "Content-Length", value |-> HV("64")],
                      [name |-> "Connection", value |-> HV("keep-alive")],
                      [name |-> "X-Request-Id", value |-> HV("r1")] >>) }

\* what the upstream does with an attempt: the connection fails, or it answers
TransportFailure == [sent |-> FALSE]
JsonOk ==
    [sent |-> TRUE, status |-> 200,
     headers |-> ParseHeaders(<< [name |-> "Content-Type",
                                  value |-> HV("application/json")] >>),
     body |-> [data |-> "{}", codings |-> << >>]]
UpstreamResults == {JsonOk, TransportFailure}

IdleRequest ==
    [pc |-> "idle", kind |-> None, model |-> None, key |-> None, cached |-> None,
     providers |-> << >>, sticky |-> 0, idx |-> 0, chosen |-> 0, set_t |-> 0,
     log |-> << >>, outcome |-> "none", n |-> 0, tried |-> 0,
     response |-> [some |-> FALSE],
     headers |-> << >>, resp |-> NoResponse, http |-> NoResponse]

\* route_request has returned and handle_request has answered: the locals are
\* gone, the answer and what was logged (the key, the cached identity, the number
\* of attempts) stay
Done(r, outcome) ==
    [IdleRequest EXCEPT !.pc = "done", !.outcome = outcome, !.kind = r.kind,
                        !.key = r.key, !.cached = r.cached,
                        !.tried = Len(SelectSeq(r.log, LAMBDA e : e.ev = "attempt")),
                        !.http = handle_request(outcome, r.kind, r.model,
                                                Len(r.providers), r.resp)]

\* the upstream attempts a request has made so far, in order
Attempts(r) == SelectSeq(r.log, LAMBDA e : e.ev = "attempt")

\* handle_request, lines 53-65; route_request, lines 114-136; get's read phase,
\* cache_affinity.rs lines 38-54
RouteBegin(t, kind, body, headers) ==
    /\ req[t].pc \in {"idle", "done"}
    /\ started < MaxRequests
    /\ started' = started + 1
    /\ IF ~to_bytes(body, MAX_BODY_BYTES).ok
       THEN req' = [req EXCEPT ![t] =
                      Done([IdleRequest EXCEPT !.kind = kind], "too_large")]
       ELSE IF ~body.json
       THEN req' = [req EXCEPT ![t] =
                      Done([IdleRequest EXCEPT !.kind = kind], "parse_error")]
       ELSE LET key == generate_key(extract_user_id(headers), kind, ModelOf(body))
                look == GetLookup(store, key, now)
            IN req' = [req EXCEPT ![t] =
                         [IdleRequest EXCEPT
                            !.pc = CASE look.tag = "absent" -> "snapshot"
                                     [] look.tag = "expired" -> "get_remove"
                                     [] look.tag = "valid" -> "get_count",
                            !.kind = kind, !.model = ModelOf(body), !.key = key,
                            !.cached = look.provider_id, !.headers = headers]]
    /\ UNCHANGED <<now, store, cached_providers, provider_json, cl, hist, cleaned>>

\* get, lines 46-50, called from route_request line 136
RouteGetRemove(t) ==
    /\ req[t].pc = "get_remove"
    /\ store' = GetRemove(store, req[t].key)
    /\ req' = [req EXCEPT ![t].pc = "snapshot"]
    /\ UNCHANGED <<now, cached_providers, provider_json, cl, hist, cleaned, started>>

\* get, lines 57-71, called from route_request line 136
RouteGetCount(t) ==
    /\ req[t].pc = "get_count"
    /\ store' = GetCount(store, req[t].key)
    /\ req' = [req EXCEPT ![t].pc = "snapshot"]
    /\ UNCHANGED <<now, cached_providers, provider_json, cl, hist, cleaned, started>>

\* route_request, lines 139-165: the snapshot, the empty test, the sticky lookup
RouteSnapshot(t) ==
    /\ req[t].pc = "snapshot"
    /\ LET providers == FilterKind(cached_providers, req[t].kind)
           sticky == FindCached(providers, req[t].cached)
       IN req' = [req EXCEPT ![t] =
                    IF providers = << >>
                    THEN Done(@, "no_providers")
                    ELSE [@ EXCEPT !.providers = providers, !.sticky = sticky,
                                   !.pc = IF sticky # 0 THEN "sticky" ELSE "sweep",
                                   !.idx = 1]]
    /\ UNCHANGED <<now, store, cached_providers, provider_json, cl, hist, cleaned, started>>

\* route_request, lines 166 and 208: the provider an attempt goes to is the
\* entry of the request's own snapshot
SnapshotProviderLive(t, i) ==
    LET live == FilterKind(cached_providers, req[t].kind)
    IN IF i <= Len(live) THEN live[i] ELSE req[t].providers[i]
SnapshotProvider(t, i) == req[t].providers[i]

\* what one attempt leaves in the request's log
AttemptEvent(i, provider, tried) ==
    [ev |-> "attempt", i |-> i, ok |-> tried.ok, p |-> provider,
     request |-> tried.request]

\* route_request, lines 166-196: the attempt against the cached provider
RouteSticky(t, up) ==
    /\ req[t].pc = "sticky"
    /\ \E provider \in {SnapshotProvider(t, req[t].sticky)} :
       \E tried \in {try_provider(provider, req[t].headers, up)} :
          req' = [req EXCEPT ![t] =
                    IF tried.ok
                    THEN [@ EXCEPT !.pc = "set_insert", !.chosen = req[t].sticky,
                                   !.set_t = now, !.resp = tried.response,
                                   !.log = Append(@, AttemptEvent(req[t].sticky, provider, tried))]
                    ELSE [@ EXCEPT !.pc = AfterStickyFailure,
                                   !.log = Append(@, AttemptEvent(req[t].sticky, provider, tried))]]
    /\ UNCHANGED <<now, store, cached_providers, provider_json, cl, hist, cleaned, started>>

\* invalidate, lines 100-103, called from route_request line 195
RouteInvalidate(t) ==
    /\ req[t].pc = "invalidate"
    /\ store' = Invalidate(store, req[t].key)
    /\ req' = [req EXCEPT ![t].pc = "sweep",
                          ![t].log = Append(@, [ev |-> "invalidate", i |-> 0, ok |-> TRUE])]
    /\ UNCHANGED <<now, cached_providers, provider_json, cl, hist, cleaned, started>>

\* route_request, lines 202-240: the next attempt of the ordered sweep
RouteSweep(t, up) ==
    /\ req[t].pc = "sweep"
    /\ LET i == NextCandidate(req[t].providers, req[t].cached, req[t].idx) IN
       /\ i # 0
       /\ \E provider \in {SnapshotProvider(t, i)} :
          \E tried \in {try_provider(provider, req[t].headers, up)} :
             req' = [req EXCEPT ![t] =
                       IF tried.ok
                       THEN [@ EXCEPT !.pc = "set_insert", !.chosen = i, !.set_t = now,
                                      !.resp = tried.response,
                                      !.log = Append(@, AttemptEvent(i, provider, tried))]
                       ELSE [@ EXCEPT !.idx = i + 1,
                                      !.log = Append(@, AttemptEvent(i, provider, tried))]]
    /\ UNCHANGED <<now, store, cached_providers, provider_json, cl, hist, cleaned, started>>

\* route_request, lines 242-247: the loop is over, every attempt failed
RouteExhausted(t) ==
    /\ req[t].pc = "sweep"
    /\ NextCandidate(req[t].providers, req[t].cached, req[t].idx) = 0
    /\ req' = [req EXCEPT ![t] =
                 [Done(@, "all_failed") EXCEPT !.n = Len(req[t].providers)]]
    /\ UNCHANGED <<now, store, cached_providers, provider_json, cl, hist, cleaned, started>>

\* set, lines 87-88, called from route_request lines 174-176 and 217-219; then
\* return Ok(response), lines 187 and 230
ChosenProviderFirst(t) == req[t].providers[1]
ChosenProvider(t) == req[t].providers[req[t].chosen]
RouteSetInsert(t) ==
    /\ req[t].pc = "set_insert"
    /\ LET provider == ChosenProvider(t) IN
       /\ store' = SetInsert(store, req[t].key,
                             NewAffinity(provider_id(provider), req[t].set_t))
       /\ req' = [req EXCEPT ![t] =
                    [Done(@, "ok") EXCEPT
                       !.response = [some |-> TRUE, provider |-> provider]]]
    /\ UNCHANGED <<now, cached_providers, provider_json, cl, hist, cleaned, started>>

\* reload_providers, lines 55-65
ReloadProviders(loaded) ==
    /\ loaded.ok
    /\ provider_json' = loaded.providers
    /\ cached_providers' = flatten_providers(provider_json')
    /\ cached_providers' # cached_providers
    /\ UNCHANGED <<now, store, req, cl, hist, cleaned, started>>

\* Router::new, lines 39-45: the registry construction starts with
new_providersOrDefault(loaded) ==
    IF loaded.ok THEN flatten_providers(loaded.providers) ELSE flatten_providers(ConfigA)
new_providers(loaded) ==
    IF loaded.ok THEN flatten_providers(loaded.providers) ELSE << >>

\* Router::new, lines 35-52, after CacheAffinityManager::new
Init ==
    /\ now = 0
    /\ store = << >>
    /\ \E loaded \in LoadResults :
         /\ provider_json = IF loaded.ok THEN loaded.providers ELSE << >>
         /\ cached_providers = new_providers(loaded)
    /\ req = [t \in Tasks |-> IdleRequest]
    /\ cl = [c \in Clients |-> IdleClient]
    /\ hist = [k \in StoreKeys |-> NoHist]
    /\ cleaned = [removed |-> 0, remaining |-> 0]
    /\ started = 0

Next ==
    \/ \E t \in Tasks, kind \in {"codex", "claude"}, body \in Bodies, headers \in Headers :
         RouteBegin(t, kind, body, headers)
    \/ \E t \in Tasks : RouteGetRemove(t)
    \/ \E t \in Tasks : RouteGetCount(t)
    \/ \E t \in Tasks : RouteSnapshot(t)
    \/ \E t \in Tasks, up \in UpstreamResults : RouteSticky(t, up)
    \/ \E t \in Tasks : RouteInvalidate(t)
    \/ \E t \in Tasks, up \in UpstreamResults : RouteSweep(t, up)
    \/ \E t \in Tasks : RouteExhausted(t)
    \/ \E t \in Tasks : RouteSetInsert(t)
    \/ \E loaded \in LoadResults : ReloadProviders(loaded)
    \/ CleanupTask
    \/ Tick

Spec == Init /\ [][Next]_vars

\* ------------------------------------------------ the affinity key, by request
\* route_request up to its get, for two requests side by side, over the forms
\* an Authorization header and a body can take.
KeyHeaders ==
    { ParseHeaders(<< [name |-> "Authorization", value |-> value] >>) :
        value \in { HV("Bearer sk-user-a"), HV("sk-user-a"), HV("Bearer  sk-user-a"),
                    HV("Bearer sk-user-b"), HV("bearer sk-user-a"), HV(""),
                    ObsValue("Bearer sk-user-") } }
    \cup { ParseHeaders(<< [name |-> "X-Request-Id", value |-> HV("r3")] >>) }
KeyBodies ==
    Bodies \cup
    { [len |-> 64, complete |-> TRUE, json |-> TRUE, model |-> None],
      [len |-> 64, complete |-> TRUE, json |-> TRUE, model |-> "unknown"],
      [len |-> 64, complete |-> TRUE, json |-> TRUE, model |-> "m:1"] }

KeyNext ==
    \E t \in Tasks, kind \in {"codex", "claude"}, body \in KeyBodies, headers \in KeyHeaders :
        RouteBegin(t, kind, body, headers)

KeySpec == Init /\ [][KeyNext]_vars

\* ------------------------------------------------- the registry, load by load
\* Router::new and reload_providers over provider files of up to MaxEntries
\* entries, each entry with or without a shared pair and sub-configs.
SharedPairs ==
    { <<None, None>>, <<"https://s.example", "key-s">>, <<"", "key-s">>,
      <<"https://s.example", None>> }
CodexConfigs ==
    { NoConfig, SomeConfig("https://x.example", "key-x"), SomeConfig("", "key-x") }
ClaudeConfigs ==
    { NoConfig, SomeConfig("https://y.example", "key-y"), SomeConfig("https://y.example", "") }

EnabledEntries ==
    { [NoProvider EXCEPT !.api_url = shared[1], !.api_key = shared[2],
                         !.codex = codex, !.claude = claude] :
        shared \in SharedPairs, codex \in CodexConfigs, claude \in ClaudeConfigs }
DisabledEntries ==
    { [NoProvider EXCEPT !.enabled = FALSE,
                         !.api_url = "https://s.example", !.api_key = "key-s",
                         !.codex = SomeConfig("https://x.example", "key-x"),
                         !.claude = claude] : claude \in ClaudeConfigs }
Entries == EnabledEntries \cup DisabledEntries

\* a provider file: its entries named e1, e2, ... by position
Named(entries) ==
    [i \in 1..Len(entries) |-> [entries[i] EXCEPT !.name = "e" \o ToString(i)]]
LoadConfigs ==
    { Named(entries) : entries \in UNION { [1..n -> Entries] : n \in 0..MaxEntries } }

\* what load_providers returns at construction and at a reload
LoadAtStart == {[ok |-> TRUE, providers |-> c] : c \in LoadConfigs} \cup {LoadError}
LoadAtReload ==
    {[ok |-> TRUE, providers |-> c] :
        c \in {d \in LoadConfigs : Len(d) = 1 /\ d[1].enabled /\ d[1].api_url = None}}
    \cup {LoadError}

\* Router::new, lines 35-52
LoadInit ==
    /\ now = 0
    /\ store = << >>
    /\ \E loaded \in LoadAtStart :
         /\ provider_json = IF loaded.ok THEN loaded.providers ELSE << >>
         /\ cached_providers = new_providers(loaded)
    /\ req = [t \in Tasks |-> IdleRequest]
    /\ cl = [c \in Clients |-> IdleClient]
    /\ hist = [k \in StoreKeys |-> NoHist]
    /\ cleaned = [removed |-> 0, remaining |-> 0]
    /\ started = 0

LoadNext == \E loaded \in LoadAtReload : ReloadProviders(loaded)

LoadSpec == LoadInit /\ [][LoadNext]_vars

\* ------------------------------------------- one connection, message by message
\* The same handlers, driven by one caller at a time (no reload, no clock), with
\* the requests and the upstream answers spelled out header by header.
HttpTask == "t1"

HttpBodies ==
    Bodies \cup
    { [len |-> MAX_BODY_BYTES, complete |-> TRUE, json |-> TRUE, model |-> "m1"],
      [len |-> MAX_BODY_BYTES + 1, complete |-> TRUE, json |-> TRUE, model |-> "m1"],
      [len |-> 64, complete |-> FALSE, json |-> TRUE, model |-> "m1"],
      [len |-> 64, complete |-> TRUE, json |-> TRUE, model |-> None],
      [len |-> 64, complete |-> TRUE, json |-> TRUE, model |-> "m\"2"] }

HttpHeaders ==
    Headers \cup
    { ParseHeaders(<< [name |-> "HOST", value |-> HV("proxy.local")],
                      [name |-> "authorization", value |-> HV("sk-user-b")],
                      [name |-> "Accept", value |-> HV("text/event-stream")],
                      [name |-> "Proxy-Connection", value |-> HV("keep-alive")],
                      [name |-> "Keep-Alive", value |-> HV("timeout=5")],
                      [name |-> "Transfer-Encoding", value |-> HV("chunked")],
                      [name |-> "UPGRADE", value |-> HV("h2c")],
                      [name |-> "TE", value |-> HV("trailers")],
                      [name |-> "Trailers", value |-> HV("x-sum")],
                      [name |-> "content-length", value |-> HV("64")] >>),
      ParseHeaders(<< [name |-> "X-Request-Id", value |-> HV("r3")] >>) }

\* a response with the given status, header lines and body
Answer(status, lines, body) ==
    [sent |-> TRUE, status |-> status, headers |-> ParseHeaders(lines), body |-> body]
Plain(data) == [data |-> data, codings |-> << >>]
Json == [name |-> "Content-Type", value |-> HV("application/json")]

HttpUpstreams ==
    UpstreamResults \cup
    { Answer(500, << Json >>, Plain("{\"error\":\"overloaded\"}")),
      Answer(199, << Json >>, Plain("{}")),
      Answer(300, << Json >>, Plain("{}")),
      Answer(299, << Json >>, Plain("{}")),
      Answer(204, << >>, Plain("")),
      Answer(200, << Json, [name |-> "X-Tengine-Error", value |-> HV("denied")] >>,
             Plain("{}")),
      Answer(200, << [name |-> "Content-Type", value |-> HV("text/html")] >>,
             Plain("<html>")),
      Answer(200, << [name |-> "Content-Type", value |-> ObsValue("text/html; charset=")] >>,
             Plain("<html>")),
      Answer(200, << [name |-> "content-type",
                      value |-> HV("text/event-stream; charset=utf-8")],
                     [name |-> "Connection", value |-> HV("close")],
                     [name |-> "Proxy-Connection", value |-> HV("close")],
                     [name |-> "Keep-Alive", value |-> HV("timeout=5")],
                     [name |-> "Transfer-Encoding", value |-> HV("chunked")],
                     [name |-> "Upgrade", value |-> HV("h2c")],
                     [name |-> "TE", value |-> HV("trailers")],
                     [name |-> "TRAILERS", value |-> HV("x-sum")],
                     [name |-> "Content-Length", value |-> HV("12")],
                     [name |-> "X-Trace", value |-> HV("u1")] >>,
             Plain("data: {}")),
      Answer(200, << Json, [name |-> "Content-Encoding", value |-> HV("GZIP")],
                     [name |-> "Content-Length", value |-> HV("20")] >>,
             [data |-> "{}", codings |-> << "gzip" >>]),
      Answer(200, << Json, [name |-> "Content-Encoding", value |-> HV("br")] >>,
             [data |-> "{}", codings |-> << "br" >>]),
      Answer(200, << Json, [name |-> "Content-Encoding", value |-> HV("gzip, br")] >>,
             [data |-> "{}", codings |-> << "br", "gzip" >>]),
      Answer(200, << Json, [name |-> "Content-Encoding", value |-> HV("gzip")],
                     [name |-> "Content-Encoding", value |-> HV("br")] >>,
             [data |-> "{}", codings |-> << "br", "gzip" >>]),
      Answer(200, << Json, [name |-> "Content-Encoding", value |-> HV("br")],
                     [name |-> "Content-Encoding", value |-> HV("gzip")] >>,
             [data |-> "{}", codings |-> << "gzip", "br" >>]) }

HttpNext ==
    \/ \E kind \in {"codex", "claude"}, body \in HttpBodies, headers \in HttpHeaders :
         RouteBegin(HttpTask, kind, body, headers)
    \/ RouteGetCount(HttpTask)
    \/ RouteSnapshot(HttpTask)
    \/ \E up \in HttpUpstreams : RouteSticky(HttpTask, up)
    \/ RouteInvalidate(HttpTask)
    \/ \E up \in HttpUpstreams : RouteSweep(HttpTask, up)
    \/ RouteExhausted(HttpTask)
    \/ RouteSetInsert(HttpTask)

HttpSpec == Init /\ [][HttpNext]_vars

\* --------------------------------------------------------- the router's claims
\* the requests that hold a snapshot and have not returned
InFlight(r) == r.pc \in {"sticky", "invalidate", "sweep", "set_insert"}

\* the identity the store returned names a provider of the request's snapshot
StickyHit(r) ==
    /\ r.cached # None
    /\ \E i \in 1..Len(r.providers) : provider_id(r.providers[i]) = r.cached

\* the request's first attempt went to the cached identity and failed
StickyFailed(r) ==
    /\ StickyHit(r)
    /\ r.log # << >>
    /\ r.log[1].ev = "attempt" /\ ~r.log[1].ok

\* the positions of the snapshot whose identity is not the cached one, in order
Others(r) ==
    SelectSeq([i \in 1..Len(r.providers) |-> i],
              LAMBDA i : provider_id(r.providers[i]) # r.cached)

\* C1: when the store returns a valid identity that names a provider of the
\* kind-filtered snapshot, the first attempt of the request goes to that
\* identity, wherever it stands in the snapshot, and the request attempts that
\* identity exactly once.
C1_StickyFirstOnce ==
    \A t \in Tasks :
        LET r == req[t]
            att == Attempts(r)
        IN (InFlight(r) /\ StickyHit(r)) =>
             /\ att = << >> => r.pc = "sticky"
             /\ att # << >> =>
                  /\ provider_id(r.providers[att[1].i]) = r.cached
                  /\ Cardinality({j \in 1..Len(att) :
                                    provider_id(r.providers[att[j].i]) = r.cached}) = 1

\* the cached provider stands second in the snapshot, was attempted first and
\* failed, and the sweep has attempted another provider since
C1_Witness ==
    \E t \in Tasks :
        LET r == req[t]
            att == Attempts(r)
        IN /\ InFlight(r) /\ StickyHit(r)
           /\ Len(att) >= 2
           /\ att[1].i = 2
           /\ provider_id(r.providers[2]) = r.cached
           /\ provider_id(r.providers[1]) # r.cached

\* C2: with no valid affinity record and a snapshot P1..Pn, the attempts go to
\* P1, P2, ... in order; when P1..P(k-1) failed and Pk succeeded the request
\* returns Pk's response and the store maps the key to Pk's identity as it returns.
C2_FirstSuccessWins ==
    /\ [](\A t \in Tasks :
            LET r == req[t]
                att == Attempts(r)
            IN (InFlight(r) /\ r.cached = None) =>
                 /\ \A j \in 1..Len(att) : att[j].i = j
                 /\ \A j \in 1..Len(att) : att[j].ok => (j = Len(att) /\ r.pc = "set_insert"))
    /\ [][\A t \in Tasks :
            (RouteSetInsert(t) /\ req[t].cached = None) =>
              LET r == req[t]
                  att == Attempts(r)
                  k == Len(att)
              IN /\ k >= 1
                 /\ \A j \in 1..k : att[j].i = j /\ (att[j].ok <=> j = k)
                 /\ req'[t].pc = "done" /\ req'[t].outcome = "ok"
                 /\ req'[t].response = [some |-> TRUE, provider |-> r.providers[k]]
                 /\ r.key \in DOMAIN store'
                 /\ store'[r.key].provider_id = provider_id(r.providers[k])]_vars

\* a request without affinity has returned the second provider's response after
\* the first one failed, and the store names the second provider for its key
C2_Witness ==
    \E t \in Tasks :
        LET r == req[t] IN
        /\ r.pc = "done" /\ r.outcome = "ok" /\ r.cached = None
        /\ r.tried = 2
        /\ r.key \in DOMAIN store
        /\ store[r.key].provider_id = provider_id(r.response.provider)
        /\ store[r.key].provider_id = "claude::https://b.example"

\* C3: when the attempt against the cached provider fails, the key's record is
\* removed before any other provider is attempted, the providers of the other
\* identities are then attempted in snapshot order, and when one of them
\* succeeds the record of the key names it as the request returns.
C3_StickyFailureFallsBack ==
    /\ [](\A t \in Tasks :
            LET r == req[t]
                att == Attempts(r)
            IN (InFlight(r) /\ StickyFailed(r)) =>
                 /\ Len(r.log) >= 2 => r.log[2].ev = "invalidate"
                 /\ r.pc \in {"sweep", "set_insert"} => Len(r.log) >= 2
                 /\ \A j \in 2..Len(att) :
                      /\ j - 1 <= Len(Others(r))
                      /\ att[j].i = Others(r)[j - 1]
                      /\ att[j].ok => (j = Len(att) /\ r.pc = "set_insert"))
    /\ [][\A t \in Tasks :
            /\ RouteInvalidate(t) =>
                 /\ StickyFailed(req[t])
                 /\ Len(Attempts(req[t])) = 1
                 /\ req[t].key \notin DOMAIN store'
            /\ (RouteSetInsert(t) /\ StickyFailed(req[t])) =>
                 LET r == req[t]
                     last == Attempts(r)[Len(Attempts(r))]
                 IN /\ last.ok
                    /\ provider_id(r.providers[last.i]) # r.cached
                    /\ req'[t].response = [some |-> TRUE, provider |-> r.providers[last.i]]
                    /\ r.key \in DOMAIN store'
                    /\ store'[r.key].provider_id = provider_id(r.providers[last.i])]_vars

\* a request whose cached provider failed has succeeded with a later provider
\* and is about to return; the key's record has been removed meanwhile
C3_Witness ==
    \E t \in Tasks :
        LET r == req[t] IN
        /\ r.pc = "set_insert" /\ StickyFailed(r)
        /\ Len(r.log) = 3
        /\ r.log[2].ev = "invalidate"
        /\ r.log[3].ev = "attempt" /\ r.log[3].ok
        /\ r.key \notin DOMAIN store

\* C4: when the registry holds no provider of the requested kind, route_request
\* fails with the no-providers error and makes no upstream attempt.
C4_NoProviders ==
    /\ [](\A t \in Tasks :
            /\ req[t].pc \in {"get_remove", "get_count", "snapshot"} => req[t].log = << >>
            /\ req[t].outcome = "no_providers" => req[t].tried = 0)
    /\ [][\A t \in Tasks :
            (/\ RouteSnapshot(t)
             /\ \A i \in 1..Len(cached_providers) : cached_providers[i].kind # req[t].kind)
            => /\ req'[t].pc = "done"
               /\ req'[t].outcome = "no_providers"
               /\ req'[t].tried = 0]_vars

\* a codex request has failed with no-providers while the registry holds
\* providers, all of the other kind
C4_Witness ==
    \E t \in Tasks :
        /\ req[t].pc = "done" /\ req[t].outcome = "no_providers"
        /\ req[t].kind = "codex"
        /\ cached_providers # << >>

\* C5: the exhaustion error is returned only when every provider of the
\* snapshot has been attempted and has failed, and the count it reports is the
\* number of providers attempted.
C5_ExhaustionCountsAttempts ==
    [][\A t \in Tasks :
         RouteExhausted(t) =>
           LET r == req[t]
               att == Attempts(r)
           IN /\ \A i \in 1..Len(r.providers) :
                   \E j \in 1..Len(att) : att[j].i = i /\ ~att[j].ok
              /\ req'[t].n = Len(att)]_vars

\* ---------------------------------------------------------- the store's claims

\* C6: get never returns an identity from an expired record.  After set(k, p)
\* read time t, and with no later set or invalidate on k, a get(k) that reads
\* time t' returns p if t' < t + ttl and absent if t' >= t + ttl (expired exactly
\* at expiry), whatever the cleanup task and calls on other keys did meanwhile.
C6_GetHonoursTtl ==
    [][\A c \in Clients, k \in StoreKeys :
         ApiGet(c, k) =>
           /\ cl'[c].ret # None =>
                /\ k \in DOMAIN store
                /\ now < store[k].expire_at
                /\ cl'[c].ret = store[k].provider_id
           /\ hist[k].und =>
                cl'[c].ret = IF now < hist[k].set_t + default_ttl
                             THEN hist[k].set_p ELSE None]_vars

\* a get has found the record expired at the very tick of its expiry, after
\* another get returned the identity
C6_Witness ==
    \E c, d \in Clients :
        /\ cl[c].pc = "get_remove"
        /\ hist[cl[c].key].und
        /\ now = hist[cl[c].key].set_t + default_ttl
        /\ cl[d].op = "get" /\ cl[d].pc = "idle"
        /\ cl[d].key = cl[c].key
        /\ cl[d].ret = hist[cl[c].key].set_p

\* C7: after invalidate(k) a get(k) that starts next, with no set(k, _) in
\* between, returns absent whatever TTL remained; invalidate removes k's record
\* and nothing else, and on a key with no record it changes nothing.
C7_InvalidateThenAbsent ==
    [][\A c \in Clients, k \in StoreKeys :
         /\ (ApiGet(c, k) /\ hist[k].inv) => (cl'[c].ret = None /\ cl'[c].pc = "idle")
         /\ ApiInvalidate(c, k) =>
              /\ k \notin DOMAIN store'
              /\ DOMAIN store' = DOMAIN store \ {k}
              /\ \A j \in DOMAIN store' : store'[j] = store[j]
              /\ (k \notin DOMAIN store => store' = store)]_vars

\* a get returned absent for a key that was invalidated while its TTL was running
C7_Witness ==
    \E c \in Clients :
        /\ cl[c].op = "get" /\ cl[c].pc = "idle" /\ cl[c].ret = None
        /\ hist[cl[c].key].inv
        /\ hist[cl[c].key].set_p # None
        /\ now < hist[cl[c].key].set_t + default_ttl

\* C8: one pass of the cleanup task at time now removes exactly the records with
\* expire_at <= now; every other record stays, with unchanged fields.
\* The first conjunct states what a pass would leave of the store in every
\* reachable state, the second that a pass that happens leaves exactly that.
C8_SweepExact ==
    /\ [](LET kept == CleanupRetain(store, now) IN
            /\ DOMAIN kept = {k \in DOMAIN store : store[k].expire_at > now}
            /\ \A k \in DOMAIN kept : kept[k] = store[k])
    /\ [][CleanupTask =>
            /\ DOMAIN store' = {k \in DOMAIN store : store[k].expire_at > now}
            /\ \A k \in DOMAIN store' : store'[k] = store[k]]_vars

\* a pass removed a record and let another one live
C8_Witness ==
    /\ cleaned.removed >= 1
    /\ cleaned.remaining >= 1
    /\ \E k \in DOMAIN store : store[k].expire_at > now

\* C9: after one set(k, p) and n gets of k that each returned p (no set,
\* invalidate or expiry in between) the record's request_count is 1 + n, also
\* when the gets overlap.
C9_HitCount ==
    \A k \in DOMAIN store :
        ~hist[k].taint => store[k].request_count = 1 + hist[k].gets

\* two overlapping gets have both been counted
C9_Witness ==
    \E k \in DOMAIN store :
        /\ hist[k].conc /\ ~hist[k].taint
        /\ hist[k].gets = 2
        /\ store[k].request_count = 3

\* C10: set(k, p) always succeeds and leaves exactly the record (p, time read by
\* set + ttl, 1) for k, whether or not k had a record, valid or expired, before;
\* the other keys keep their records.
C10_SetFresh ==
    /\ [](\A c \in Clients : cl[c].pc = "set_insert" => ENABLED ApiSetInsert(c))
    /\ [][\A c \in Clients :
            ApiSetInsert(c) =>
              /\ DOMAIN store' = DOMAIN store \cup {cl[c].key}
              /\ store'[cl[c].key] =
                   [provider_id |-> cl[c].arg, expire_at |-> cl[c].t + default_ttl,
                    request_count |-> 1]
              /\ \A j \in DOMAIN store \ {cl[c].key} : store'[j] = store[j]]_vars

\* a set has replaced an expired record
C10_Witness ==
    \E k \in DOMAIN store :
        /\ hist[k].over = "expired"
        /\ store[k] = [provider_id |-> hist[k].set_p,
                       expire_at |-> hist[k].set_t + default_ttl,
                       request_count |-> 1]

\* ------------------------------------------------- the router's claims, continued
\* the identity the store returned names no provider of the request's snapshot
StickyMiss(r) == r.cached # None /\ ~StickyHit(r)

\* C11: when the identity the store returned equals the identity of no provider
\* of the kind-filtered snapshot, no sticky attempt is made (and nothing is
\* invalidated), and the sweep attempts the providers of the snapshot in
\* snapshot order, skipping none: the j-th attempt goes to position j, and the
\* exhaustion error comes only after every position has been attempted.
C11_StaleIdentityIgnored ==
    /\ [](\A t \in Tasks :
            LET r == req[t]
                att == Attempts(r)
            IN (InFlight(r) /\ StickyMiss(r)) =>
                 /\ r.sticky = 0
                 /\ r.pc \notin {"sticky", "invalidate"}
                 /\ \A j \in 1..Len(r.log) : r.log[j].ev = "attempt"
                 /\ \A j \in 1..Len(att) : att[j].i = j)
    /\ [][\A t \in Tasks :
            (RouteExhausted(t) /\ StickyMiss(req[t])) =>
               Len(Attempts(req[t])) = Len(req[t].providers)]_vars

\* a reload removed the provider the record names; the request has swept both
\* providers of the new snapshot in order
C11_Witness ==
    \E t \in Tasks :
        LET r == req[t]
            att == Attempts(r)
        IN /\ r.pc = "sweep" /\ StickyMiss(r)
           /\ r.cached = "claude::https://b.example"
           /\ Len(r.providers) = 2
           /\ Len(att) = 2 /\ att[1].i = 1 /\ att[2].i = 2

\* a provider list without its priorityLevel values
StripLevel(list) ==
    [i \in 1..Len(list) |-> [kind |-> list[i].kind, api_url |-> list[i].api_url,
                             api_key |-> list[i].api_key, name |-> list[i].name]]

\* the configuration list with the level of entry i replaced by lv[i]
WithLevels(providers, lv) ==
    [i \in 1..Len(providers) |-> [providers[i] EXCEPT !.level = lv[i]]]

\* the level assignments tried on a configuration of n entries
LevelChoices(n) == [1..n -> {0, 9}]

\* the positions of the sweep's attempts: every attempt but a sticky one
SweepPositions(r) ==
    LET att == Attempts(r)
    IN IF r.sticky # 0 /\ att # << >> THEN Tail(att) ELSE att

\* C12: within one kind the sweep attempts the providers in the order of the
\* enabled entries of the configuration list, whatever their levels: the
\* snapshot a request takes is what the same configuration yields under every
\* other assignment of levels, and the sweep walks the snapshot upwards.
C12_ConfigurationOrder ==
    /\ [](\A t \in Tasks :
            LET pos == SweepPositions(req[t]) IN
            InFlight(req[t]) =>
               \A j \in 1..Len(pos) : \A k \in 1..Len(pos) :
                   j < k => pos[j].i < pos[k].i)
    /\ [][\A t \in Tasks :
            RouteSnapshot(t) =>
               \A lv \in LevelChoices(Len(provider_json)) :
                   StripLevel(req'[t].providers) =
                   StripLevel(FilterKind(flatten_providers(WithLevels(provider_json, lv)),
                                         req[t].kind))]_vars

\* the snapshot holds the entry of level 2 before the entry of level 1, and the
\* sweep has attempted them in that order
C12_Witness ==
    \E t \in Tasks :
        LET r == req[t]
            att == Attempts(r)
        IN /\ r.pc = "sweep" /\ r.sticky = 0
           /\ Len(att) >= 2
           /\ r.providers[att[1].i].level = 2
           /\ r.providers[att[2].i].level = 1

\* the provider lists of one kind that a load can install
Snapshots(kind) ==
    {FilterKind(flatten_providers(l.providers), kind) : l \in {x \in LoadResults : x.ok}}

\* C13: the list a request works with is in full the list of one load, the one
\* active when the snapshot was taken, never a mixture of two; and every
\* attempt of the request goes to a provider of its own snapshot, also when a
\* reload has completed since.
C13_SnapshotIsolation ==
    /\ [](\A t \in Tasks :
            LET r == req[t]
                att == Attempts(r)
            IN InFlight(r) =>
                 /\ r.providers \in Snapshots(r.kind)
                 /\ \A j \in 1..Len(att) : att[j].p = r.providers[att[j].i])
    /\ [][\A t \in Tasks :
            (RouteSnapshot(t) /\ req'[t].pc # "done") =>
               req'[t].providers = FilterKind(cached_providers, req[t].kind)]_vars

\* a reload has replaced the list while the request was in flight, and the
\* request has since attempted a provider that the new list does not hold
C13_Witness ==
    \E t \in Tasks :
        LET r == req[t]
            att == Attempts(r)
            live == FilterKind(cached_providers, r.kind)
        IN /\ r.pc = "sweep" /\ att # << >>
           /\ r.providers # live
           /\ att[Len(att)].p.api_url = "https://b.example"
           /\ \A i \in 1..Len(live) : live[i].api_url # "https://b.example"

\* ------------------------------------------------ the claims about one connection
\* the answer reports a provider failure: 502 with the all-providers-failed message
IsProviderFailure(http) ==
    /\ http.some
    /\ http.status = 502
    /\ contains(http.body.data, "{\"error\":\"All providers failed: ")

\* C14: a request whose body is not JSON is answered as an input failure: its
\* answer is not the all-providers-failed answer (the exhaustion outcome).
C14_ParseFailureIsInputFailure ==
    \A t \in Tasks :
        (req[t].pc = "done" /\ req[t].outcome = "parse_error") =>
            ~IsProviderFailure(req[t].http)

\* the text can stand between the quotes of a JSON string: no bare quote, and
\* every backslash is followed by a quote or a backslash
RECURSIVE IsJsonStringBody(_)
IsJsonStringBody(str) ==
    IF str = "" THEN TRUE
    ELSE LET c == SubSeq(str, 1, 1) IN
         IF c = "\"" THEN FALSE
         ELSE IF c = "\\"
         THEN /\ Len(str) >= 2
              /\ SubSeq(str, 2, 2) \in {"\"", "\\"}
              /\ IsJsonStringBody(SubSeq(str, 3, Len(str)))
         ELSE IsJsonStringBody(SubSeq(str, 2, Len(str)))

\* the text is a JSON object with the one member "error", a string
IsErrorObject(data) ==
    LET open == "{\"error\":\""
        close == "\"}"
    IN /\ Len(data) >= Len(open) + Len(close)
       /\ SubSeq(data, 1, Len(open)) = open
       /\ SubSeq(data, Len(data) - Len(close) + 1, Len(data)) = close
       /\ IsJsonStringBody(SubSeq(data, Len(open) + 1, Len(data) - Len(close)))

\* C15: every failure answer of handle_request has status 413 (the body could
\* not be read within the limit) or 502 (route_request returned an error) and a
\* JSON body {"error": message}; a successful result of route_request is the
\* answer, unchanged.
C15_FailureAnswers ==
    /\ [](\A t \in Tasks :
            LET r == req[t] IN
            (r.pc = "done" /\ r.outcome # "ok") =>
               /\ r.http.some
               /\ r.http.status \in {413, 502}
               /\ r.http.status = 413 <=> r.outcome = "too_large"
               /\ IsErrorObject(r.http.body.data)
               /\ r.http.body.codings = << >>
               /\ HeaderGet(r.http.headers, "content-type")
                    = [some |-> TRUE, value |-> HV("application/json")])
    /\ [][\A t \in Tasks :
            RouteSetInsert(t) =>
               /\ req[t].resp.some
               /\ req'[t].outcome = "ok"
               /\ req'[t].http = req[t].resp]_vars

\* every provider failed for a model whose name holds a quote: the answer is a
\* 502 whose message carries the quote escaped
C15_Witness ==
    \E t \in Tasks :
        /\ req[t].pc = "done" /\ req[t].outcome = "all_failed"
        /\ req[t].http.status = 502
        /\ contains(req[t].http.body.data, "for model: m\\\"2\"}")

\* an attempt of task t that got the upstream's answer up
Attempted(t, up) == RouteSticky(t, up) \/ RouteSweep(t, up)

\* the last entry of the log of a request
LastEvent(r) == r.log[Len(r.log)]

\* the success condition as stated: 2xx, no x-tengine-error header, and the
\* content-type header absent or containing one of the two media types
StatedSuccess(up) ==
    /\ up.status \in 200..299
    /\ \A i \in 1..Len(up.headers) : up.headers[i].name # "x-tengine-error"
    /\ \/ \A i \in 1..Len(up.headers) : up.headers[i].name # "content-type"
       \/ contains(HeaderGet(up.headers, "content-type").value.text, "application/json")
       \/ contains(HeaderGet(up.headers, "content-type").value.text, "text/event-stream")

\* C16: an attempt whose request was sent succeeds if and only if the status is
\* 2xx, the response has no x-tengine-error header and its content-type header
\* is absent or contains application/json or text/event-stream.
C16_AttemptSucceedsIff ==
    [][\A t \in Tasks : \A up \in HttpUpstreams :
          (Attempted(t, up) /\ up.sent) =>
              (LastEvent(req'[t]).ok <=> StatedSuccess(up))]_vars

\* the header names that belong to one connection, and Content-Length
HopByHopAndLength ==
    {"connection", "proxy-connection", "keep-alive", "transfer-encoding", "upgrade",
     "te", "trailers", "content-length"}

\* the names of a header map; a header map holds its names in lower case
NamesOf(headers) == {headers[i].name : i \in 1..Len(headers)}

\* C17: whatever the inbound request headers and the upstream response headers,
\* no Connection, Proxy-Connection, Keep-Alive, Transfer-Encoding, Upgrade, TE,
\* Trailers or Content-Length header (in any letter case) is in a request sent
\* upstream or in a response returned to the caller, and no Host header is in a
\* request sent upstream.
C17_HopByHopDropped ==
    \A t \in Tasks :
        LET r == req[t]
            att == Attempts(r)
        IN /\ \A j \in 1..Len(att) :
                NamesOf(att[j].request.headers) \cap (HopByHopAndLength \cup {"host"}) = {}
           /\ r.resp.some => NamesOf(r.resp.headers) \cap HopByHopAndLength = {}
           /\ (r.pc = "done" /\ r.outcome = "ok") =>
                NamesOf(r.http.headers) \cap HopByHopAndLength = {}

\* a request that came with all nine headers was sent upstream, and the answer,
\* which carried all eight, is about to be returned with its other headers
C17_Witness ==
    \E t \in Tasks :
        LET r == req[t] IN
        /\ r.pc = "set_insert"
        /\ (HopByHopAndLength \ {"connection"}) \cup {"host"} \subseteq NamesOf(r.headers)
        /\ "accept" \in NamesOf(LastEvent(r).request.headers)
        /\ r.resp.some
        /\ {"content-type", "x-trace"} \subseteq NamesOf(r.resp.headers)

\* the entries a header map holds under a name
ValuesOf(headers, name) == SelectSeq(headers, LAMBDA h : h.name = name)

\* the caller's own Authorization values
CallerAuthorization(r) ==
    {ValuesOf(r.headers, "authorization")[i].value :
        i \in 1..Len(ValuesOf(r.headers, "authorization"))}

\* C18: every request sent upstream, by the sticky attempt and by every attempt
\* of the sweep, carries exactly one Authorization header, whose value is
\* "Bearer " followed by the credential of the provider attempted, and no header
\* of it carries the caller's own Authorization value.
C18_ProviderCredentialOnly ==
    \A t \in Tasks :
        LET r == req[t]
            att == Attempts(r)
        IN \A j \in 1..Len(att) :
              LET sent == att[j].request.headers
                  auth == ValuesOf(sent, "authorization")
              IN /\ Len(auth) = 1
                 /\ auth[1].value = HV("Bearer " \o att[j].p.api_key)
                 /\ \A i \in 1..Len(sent) : sent[i].value \notin CallerAuthorization(r)

\* a caller that sent its own Authorization had a failed sticky attempt and then
\* a sweep attempt on a provider with another credential
C18_Witness ==
    \E t \in Tasks :
        LET r == req[t]
            att == Attempts(r)
        IN /\ CallerAuthorization(r) # {}
           /\ Len(att) >= 2
           /\ \E k \in 1..Len(r.log) : r.log[k].ev = "invalidate"
           /\ att[1].p.api_key # att[Len(att)].p.api_key

\* the upstream response carried Content-Encoding: gzip, in any letter case
CarriedGzip(up) ==
    \E i \in 1..Len(up.headers) :
        /\ up.headers[i].name = "content-encoding"
        /\ ~up.headers[i].value.obs
        /\ to_ascii_lowercase(up.headers[i].value.text) = "gzip"

\* the Content-Encoding values of the upstream response other than gzip
OtherEncodings(up) ==
    SelectSeq(ValuesOf(up.headers, "content-encoding"),
              LAMBDA h : h.value.obs \/ to_ascii_lowercase(h.value.text) # "gzip")

\* what C19 states of the response built from the upstream answer up
GzipHandledAsStated(up, resp) ==
    /\ resp.body.decoded <=> CarriedGzip(up)
    /\ CarriedGzip(up) => "content-encoding" \notin NamesOf(resp.headers)
    /\ OtherEncodings(up) # << >> =>
          /\ ValuesOf(resp.headers, "content-encoding") = OtherEncodings(up)
          /\ ~resp.body.decoded
          /\ resp.body.codings = up.body.codings

\* C19: for a successful attempt, the body of the response returned is passed
\* through the gzip decoder if and only if the upstream response carried
\* Content-Encoding: gzip (in any letter case), in exactly that case the response
\* returned has no Content-Encoding header, and any other Content-Encoding value
\* is forwarded unchanged together with an undecoded body.
C19_GzipDecodedAndStripped ==
    [][\A t \in Tasks : \A up \in HttpUpstreams :
          (Attempted(t, up) /\ LastEvent(req'[t]).ok) =>
              GzipHandledAsStated(up, req'[t].resp)]_vars

\* the same for upstream responses with at most one Content-Encoding line
C19_SingleEncodingLine ==
    [][\A t \in Tasks : \A up \in HttpUpstreams :
          (/\ Attempted(t, up) /\ LastEvent(req'[t]).ok
           /\ Len(ValuesOf(up.headers, "content-encoding")) <= 1) =>
              GzipHandledAsStated(up, req'[t].resp)]_vars

\* the effective config of an entry for a kind: the explicit sub-config when one
\* is present, otherwise the shared pair when both are non-empty
EffectiveConfig(entry, kind) ==
    LET sub == IF kind = "codex" THEN entry.codex ELSE entry.claude IN
    IF sub.some THEN sub
    ELSE IF entry.api_url \notin {None, ""} /\ entry.api_key \notin {None, ""}
         THEN SomeConfig(entry.api_url, entry.api_key)
         ELSE NoConfig

\* the resolved providers of the registry that come from an entry for a kind
ResolvedFor(entry, kind) ==
    SelectSeq(cached_providers, LAMBDA p : p.name = entry.name /\ p.kind = kind)

\* C20: the registry holds a resolved provider for (entry, kind) if and only if
\* the entry is enabled and its effective config for the kind has a non-empty
\* endpoint and a non-empty credential; it holds one, with the endpoint and the
\* credential of that config, so an entry with sub-configs for both kinds gives
\* one resolved provider per kind, each with its own endpoint.
C20_ResolvedIffConfigured ==
    /\ \A i \in 1..Len(provider_json) : \A kind \in {"codex", "claude"} :
          LET entry == provider_json[i]
              config == EffectiveConfig(entry, kind)
              resolved == ResolvedFor(entry, kind)
          IN /\ resolved # << >> <=>
                   (entry.enabled /\ config.some /\ config.api_url # "" /\ config.api_key # "")
             /\ resolved # << >> =>
                   /\ Len(resolved) = 1
                   /\ resolved[1].api_url = config.api_url
                   /\ resolved[1].api_key = config.api_key
    /\ \A j \in 1..Len(cached_providers) :
          \E i \in 1..Len(provider_json) : cached_providers[j].name = provider_json[i].name

\* a provider file was loaded whose second entry has a shared pair and both
\* sub-configs and is resolved once per kind to the sub-config's endpoint, and
\* whose first entry is resolved for claude through its shared pair and not at
\* all for codex, its codex sub-config having no endpoint
C20_Witness ==
    /\ Len(provider_json) = 2
    /\ cached_providers =
         << [kind |-> "claude", api_url |-> "https://s.example", api_key |-> "key-s",
             name |-> "e1", level |-> 0],
            [kind |-> "codex", api_url |-> "https://x.example", api_key |-> "key-x",
             name |-> "e2", level |-> 0],
            [kind |-> "claude", api_url |-> "https://y.example", api_key |-> "key-y",
             name |-> "e2", level |-> 0] >>
    /\ provider_json[1].codex = SomeConfig("", "key-x")
    /\ provider_json[2].api_url = "https://s.example"

\* the record the pending set of task t writes: built from the provider that
\* answered and the time the set call read
PendingRecord(t) ==
    NewAffinity(provider_id(req[t].providers[req[t].chosen]), req[t].set_t)

\* C21: when route_request tasks set the same key concurrently, the record of
\* the key after each set is in full the record of that set (so after both, the
\* record of the set that took the write lock last): provider_id and expire_at
\* come from one set call.  No other step writes a provider_id or an expire_at.
C21_SetIsWhole ==
    /\ [][\A t \in Tasks :
            RouteSetInsert(t) =>
               /\ req[t].key \in DOMAIN store'
               /\ store'[req[t].key] = PendingRecord(t)]_vars
    /\ [][\A k \in DOMAIN store' :
            (\/ k \notin DOMAIN store
             \/ store'[k].provider_id # store[k].provider_id
             \/ store'[k].expire_at # store[k].expire_at) =>
               \E t \in Tasks : RouteSetInsert(t) /\ req[t].key = k]_vars

\* two requests for the same key each looked the key up before the other's set
\* and each completed a set, for different providers; the record is the whole
\* record of one of them
C21_Witness ==
    /\ now < default_ttl
    /\ \E t \in Tasks, u \in Tasks :
         /\ t # u
         /\ req[t].pc = "done" /\ req[u].pc = "done"
         /\ req[t].outcome = "ok" /\ req[u].outcome = "ok"
         /\ req[t].key = req[u].key
         /\ req[t].cached = None /\ req[u].cached = None
         /\ provider_id(req[t].response.provider) # provider_id(req[u].response.provider)
         /\ req[t].key \in DOMAIN store
         /\ store[req[t].key].provider_id = provider_id(req[u].response.provider)

\* C23: when the load fails at construction the router exists with an empty
\* registry, and the registry stays empty until a load succeeds; every request
\* that is routed meanwhile ends with the no-providers error, having made no
\* upstream attempt.
C23_FailedLoadServesNothing ==
    /\ [](provider_json = << >> => cached_providers = << >>)
    /\ [][\A t \in Tasks :
            (RouteSnapshot(t) /\ provider_json = << >>) =>
               /\ req'[t].pc = "done"
               /\ req'[t].outcome = "no_providers"
               /\ req'[t].tried = 0
               /\ req'[t].http =
                    error_response(502, "All providers failed: No providers available for "
                                        \o req[t].kind \o " model: " \o req[t].model)]_vars

\* no load has succeeded yet and a request has been answered
C23_Witness ==
    /\ provider_json = << >>
    /\ \E t \in Tasks :
         /\ req[t].pc = "done" /\ req[t].outcome = "no_providers"
         /\ req[t].http.some /\ req[t].http.status = 502

\* C24: in every interleaving, a record leaves the store only in an invalidate
\* of its key, in a pass of the cleanup task at which it is expired, or in the
\* removal of a get on its key at which it is expired: get never removes a
\* record that is unexpired when it is removed.
C24_RemovedOnlyWhenDue ==
    [][\A k \in DOMAIN store \ DOMAIN store' :
          \/ \E c \in Clients : ApiInvalidate(c, k)
          \/ CleanupTask /\ IsExpired(now, store[k])
          \/ \E c \in Clients :
                ApiGetRemove(c) /\ cl[c].key = k /\ IsExpired(now, store[k])]_vars

\* C25: route_request stops at the first successful attempt.  While a request
\* is attempting, every attempt it has made failed; once an attempt succeeded
\* the request makes no further attempt: its next step sets the affinity of its
\* key to the identity of the provider of that attempt and returns that
\* attempt's response.
C25_FirstSuccessIsTerminal ==
    /\ [](\A t \in Tasks :
            LET r == req[t]
                att == Attempts(r)
            IN /\ r.pc \in {"sticky", "invalidate", "sweep"} =>
                    \A j \in 1..Len(att) : ~att[j].ok
               /\ r.pc = "set_insert" =>
                    /\ att # << >> /\ att[Len(att)].ok
                    /\ \A j \in 1..(Len(att) - 1) : ~att[j].ok
                    /\ r.resp.some)
    /\ [][\A t \in Tasks :
            Attempts(req'[t]) # Attempts(req[t]) /\ req'[t].pc # "done" =>
               \A j \in 1..Len(Attempts(req[t])) : ~Attempts(req[t])[j].ok]_vars
    /\ [][\A t \in Tasks :
            RouteSetInsert(t) =>
               /\ req'[t].pc = "done" /\ req'[t].outcome = "ok"
               /\ req'[t].http = req[t].resp
               /\ req'[t].tried = Len(Attempts(req[t]))
               /\ store'[req[t].key].provider_id = provider_id(LastEvent(req[t]).p)]_vars

\* a request whose sticky attempt failed got a 299 answer from a provider of the
\* sweep and has returned it, and its key names that provider
C25_Witness ==
    \E t \in Tasks :
        /\ req[t].pc = "done" /\ req[t].outcome = "ok"
        /\ req[t].cached # None
        /\ req[t].tried >= 2
        /\ req[t].http.some /\ req[t].http.status = 299
        /\ req[t].key \in DOMAIN store
        /\ store[req[t].key].provider_id = provider_id(req[t].response.provider)
        /\ provider_id(req[t].response.provider) # req[t].cached

\* the positions of a provider list whose kind and endpoint URL are those of
\* the identity id
SameEndpoint(providers, id) ==
    {i \in 1..Len(providers) : providers[i].kind \o "::" \o providers[i].api_url = id}

\* C26: a request that got a valid identity from the store makes its sticky
\* attempt whenever the registry it snapshots holds a provider of the kind with
\* the endpoint URL of the identity, whatever the position, name, level and
\* credential of that provider are now (so also after a reload that changed
\* them); the sticky attempt goes to the provider record of that snapshot and
\* carries its credential.
C26_IdentitySurvivesReload ==
    /\ [][\A t \in Tasks :
            (/\ RouteSnapshot(t)
             /\ req[t].cached # None
             /\ SameEndpoint(FilterKind(cached_providers, req[t].kind), req[t].cached) # {})
            => /\ req'[t].pc = "sticky"
               /\ req'[t].providers = FilterKind(cached_providers, req[t].kind)
               /\ req'[t].sticky \in SameEndpoint(req'[t].providers, req[t].cached)]_vars
    /\ [](\A t \in Tasks :
            LET r == req[t] IN
            (r.pc \in {"sticky", "invalidate", "sweep", "set_insert"} /\ r.sticky # 0
             /\ Attempts(r) # << >>) =>
               /\ Attempts(r)[1].p = r.providers[r.sticky]
               /\ HeaderGet(Attempts(r)[1].request.headers, "authorization").value
                    = HV("Bearer " \o r.providers[r.sticky].api_key))

\* a request succeeded on the provider of an endpoint; after a reload that moved
\* the endpoint to another position and changed its name, level and credential,
\* a second request for the key has made its sticky attempt on the new record
C26_Witness ==
    \E t \in Tasks, u \in Tasks :
        /\ req[u].pc = "done" /\ req[u].outcome = "ok"
        /\ req[t].pc \in {"invalidate", "set_insert"}
        /\ req[t].key = req[u].key
        /\ req[t].cached = provider_id(req[u].response.provider)
        /\ Len(Attempts(req[t])) = 1
        /\ LET old == req[u].response.provider
               new == Attempts(req[t])[1].p
           IN /\ provider_id(new) = provider_id(old)
              /\ new.api_key # old.api_key /\ new.name # old.name /\ new.level # old.level
              /\ req[t].sticky = 2
              /\ new \in {cached_providers[i] : i \in 1..Len(cached_providers)}
              /\ old \notin {cached_providers[i] : i \in 1..Len(cached_providers)}

\* no task but t has run a request, and the cleanup task has removed nothing
Alone(t) ==
    /\ \A u \in Tasks \ {t} : req[u].pc = "idle"
    /\ cleaned.removed = 0

\* the step is one of task t at the given position of route_request
StepAt(t, pc) == req[t].pc = pc /\ req'[t] # req[t]

\* the step is the exhaustion of task t
Exhausts(t) ==
    StepAt(t, "sweep") /\ req'[t].pc = "done" /\ req'[t].outcome = "all_failed"

\* C27: a failed sweep attempt and the exhaustion leave the store as it is, and
\* a get that returned an identity leaves the record's provider_id and
\* expire_at as they are.  So when a request ends with the exhaustion error and
\* nothing else operated on its key: after a sticky attempt the store holds no
\* record for the key; without a sticky attempt the record the get found valid
\* is still there.
C27_ExhaustionFrame ==
    /\ [][\A t \in Tasks :
            (StepAt(t, "sweep") /\ req'[t].pc # "set_insert") => store' = store]_vars
    /\ [][\A t \in Tasks :
            (StepAt(t, "get_count") /\ req[t].key \in DOMAIN store) =>
               /\ DOMAIN store' = DOMAIN store
               /\ store'[req[t].key].provider_id = store[req[t].key].provider_id
               /\ store'[req[t].key].expire_at = store[req[t].key].expire_at]_vars
    /\ [][\A t \in Tasks :
            (Exhausts(t) /\ Alone(t)) =>
               /\ req[t].sticky # 0 => req[t].key \notin DOMAIN store'
               /\ (req[t].sticky = 0 /\ req[t].cached # None) =>
                     /\ req[t].key \in DOMAIN store'
                     /\ store'[req[t].key].provider_id = req[t].cached]_vars

\* the only request running found a valid identity that the registry, reloaded
\* since the record was set, no longer holds; every provider of the sweep failed
\* and the record is still in the store
C27_Witness ==
    \E t \in Tasks :
        /\ Alone(t)
        /\ req[t].pc = "done" /\ req[t].outcome = "all_failed"
        /\ req[t].cached # None
        /\ req[t].tried >= 2
        /\ req[t].key \in DOMAIN store
        /\ store[req[t].key].provider_id = req[t].cached

\* the bytes of a header value as text; <e9> stands for the byte 0xE9
BytesText(value) == IF value.obs THEN value.text \o "<e9>" ELSE value.text

\* the caller id as stated: the digest of the Authorization value without an
\* optional "Bearer " prefix and surrounding whitespace, anonymous without header
StatedCallerId(headers) ==
    LET auth == ValuesOf(headers, "authorization") IN
    IF auth = << >> THEN "anonymous"
    ELSE hash_string(trim_end(trim_start(
             strip_prefix_or(BytesText(auth[1].value), "Bearer "))))

\* the model as stated: the body's model string, unknown when there is none
StatedModel(body) == IF body.model = None THEN "unknown" ELSE body.model

\* what C28 states of a request with a JSON body that begins and becomes r
KeyAsStated(r, kind, body, headers) ==
    /\ r.pc \in {"snapshot", "get_remove", "get_count"}
    /\ r.key = StatedCallerId(headers) \o ":" \o kind \o ":" \o StatedModel(body)

\* requests in flight have the same key exactly when they agree on the three parts
SameKeyIffSameParts ==
    \A t \in Tasks, u \in Tasks :
        (req[t].key # None /\ req[u].key # None) =>
            (req[t].key = req[u].key <=>
                /\ StatedCallerId(req[t].headers) = StatedCallerId(req[u].headers)
                /\ req[t].kind = req[u].kind
                /\ req[t].model = req[u].model)

\* C28: the affinity key of a request is callerId:kind:model, callerId being
\* hash_string of the Authorization value without an optional "Bearer " prefix
\* and surrounding whitespace, or anonymous when there is no Authorization
\* header, and model the body's model string or unknown; a body without a model
\* is routed like any other; two requests have the same key if and only if they
\* agree on callerId, kind and model.
C28_AffinityKey ==
    /\ [][\A t \in Tasks, kind \in {"codex", "claude"}, body \in KeyBodies,
            headers \in KeyHeaders :
            (RouteBegin(t, kind, body, headers) /\ body.json) =>
                KeyAsStated(req'[t], kind, body, headers)]_vars
    /\ []SameKeyIffSameParts

\* the same for requests whose Authorization value, if any, is visible ASCII
C28_TextAuthorization ==
    /\ [][\A t \in Tasks, kind \in {"codex", "claude"}, body \in KeyBodies,
            headers \in KeyHeaders :
            (/\ RouteBegin(t, kind, body, headers) /\ body.json
             /\ \A i \in 1..Len(headers) : ~headers[i].value.obs) =>
                KeyAsStated(req'[t], kind, body, headers)]_vars
    /\ [](((\A t \in Tasks : \A i \in 1..Len(req[t].headers) : ~req[t].headers[i].value.obs))
            => SameKeyIffSameParts)

\* key k holds a record that is expired now
HoldsExpired(k) == k \in DOMAIN store /\ IsExpired(now, store[k])

\* C29: with the cleanup task scheduled fairly, a record that has become expired
\* does not stay: it leaves the store, or a later set overwrites it, also when no
\* get, set or invalidate is issued for its key any more.
C29_ExpiredEventuallyRemoved ==
    \A k \in StoreKeys : HoldsExpired(k) ~> ~HoldsExpired(k)

\* one call was ever issued, a set; its record expired and a pass of the
\* cleanup task removed it
C29_Witness ==
    /\ started = 1
    /\ \A c \in Clients : cl[c].pc = "idle" /\ cl[c].op \in {"none", "set"}
    /\ \E k \in StoreKeys : hist[k].set_p # None /\ k \notin DOMAIN store
    /\ cleaned.removed = 1
    /\ now >= default_ttl

\* C30: while a get on key k holds the store for its removal of an expired
\* record or for its counter update, a get on another key that is waiting to
\* read is not kept out: it can take its read guard.
C30_UnrelatedReadsNotExcluded ==
    \A c \in Clients, d \in Clients :
        (/\ cl[c].pc \in {"removing", "counting"}
         /\ cl[d].pc = "read_wait"
         /\ cl[d].key # cl[c].key)
        => ENABLED LockReadAcquire(d)

\* ---- C31
\* a record without its request_count
EraseCount(st) ==
    [k \in DOMAIN st |-> [provider_id |-> st[k].provider_id, expire_at |-> st[k].expire_at]]

\* the stores that differ from st in request_count values only
CountVariants(st) ==
    { [k \in DOMAIN st |-> [st[k] EXCEPT !.request_count = n[k]]] :
        n \in [DOMAIN st -> 1..MaxCalls] }

\* the records a set in flight is about to insert
PendingSets ==
    { <<cl[c].key, NewAffinity(cl[c].arg, cl[c].t)>> : c \in {d \in Clients : cl[d].pc = "set_insert"} }

\* C31: request_count never influences what the store returns or evicts.  From
\* the store of any reachable state and from any store that differs from it in
\* request_count values only, at the same time, get's lookup gives the same
\* result, and get's removal, get's counter step, set's insert, invalidate and
\* the cleanup pass leave stores with the same keys, the same provider_id and
\* the same expire_at, so the two runs never come apart in a return value or
\* in the set of surviving keys.
C31_CountNeverDecides ==
    \A v \in CountVariants(store) :
        /\ EraseCount(CleanupRetain(v, now)) = EraseCount(CleanupRetain(store, now))
        /\ \A k \in StoreKeys :
            /\ GetLookup(v, k, now) = GetLookup(store, k, now)
            /\ EraseCount(GetRemove(v, k)) = EraseCount(GetRemove(store, k))
            /\ EraseCount(GetCount(v, k)) = EraseCount(GetCount(store, k))
            /\ EraseCount(Invalidate(v, k)) = EraseCount(Invalidate(store, k))
        /\ \A s \in PendingSets :
            EraseCount(SetInsert(v, s[1], s[2])) = EraseCount(SetInsert(store, s[1], s[2]))

\* two records with different counters, one of them due for eviction, the other
\* just returned by a get
C31_Witness ==
    \E k \in DOMAIN store, j \in DOMAIN store, c \in Clients :
        /\ store[k].request_count > store[j].request_count
        /\ IsExpired(now, store[j])
        /\ cl[c].pc = "idle" /\ cl[c].op = "get" /\ cl[c].key = k /\ cl[c].ret = store[k].provider_id

\* ------------------------------------------------ the reload, call by call
\* The file watcher's task (main.rs lines 155-171) calls reload_providers after
\* each change of the configuration file; requests go on being routed up to
\* their snapshot of the registry.
Watcher == "c1"

\* load_providers, provider.rs lines 89-145: a file that is gone is an empty
\* list, not an error (lines 92-95)
ReloadResults == LoadResults \cup {[ok |-> TRUE, providers |-> << >>]}

\* reload_providers, router.rs lines 55-65: the ? of line 58 returns before the
\* write lock is taken
reload_providersCleared(cache, loaded) ==
    IF loaded.ok
    THEN [ok |-> TRUE, cache |-> flatten_providers(loaded.providers)]
    ELSE [ok |-> FALSE, cache |-> << >>]
reload_providers(cache, loaded) ==
    IF loaded.ok
    THEN [ok |-> TRUE, cache |-> flatten_providers(loaded.providers)]
    ELSE [ok |-> FALSE, cache |-> cache]

\* main.rs lines 167-169: one call of reload_providers and what it returned;
\* arg is the number of requests accepted before the call
WatcherReload(loaded) ==
    /\ LET r == reload_providers(cached_providers, loaded) IN
       /\ cached_providers' = r.cache
       /\ provider_json' = IF r.ok THEN loaded.providers ELSE provider_json
       /\ cl' = [cl EXCEPT ![Watcher] =
                   [IdleClient EXCEPT !.op = "reload_providers", !.arg = started,
                                      !.ret = IF r.ok THEN "Ok" ELSE "Err"]]
    /\ UNCHANGED <<now, store, req, hist, cleaned, started>>

ReloadNext ==
    \/ \E loaded \in ReloadResults : WatcherReload(loaded)
    \/ \E t \in Tasks, kind \in {"codex", "claude"}, body \in Bodies, headers \in Headers :
         RouteBegin(t, kind, body, headers)
    \/ \E t \in Tasks : RouteSnapshot(t)

ReloadSpec == Init /\ [][ReloadNext]_vars

\* ---- C32
\* the last call of reload_providers returned an error
LastReloadFailed == cl[Watcher].op = "reload_providers" /\ cl[Watcher].ret = "Err"

\* C32: a reload_providers whose load fails returns an error and leaves the
\* active provider list exactly as it was, and a request that takes its
\* snapshot afterwards gets the providers of the last load that succeeded.
C32_FailedReloadKeepsList ==
    /\ [](\A loaded \in ReloadResults :
            ~loaded.ok => ~reload_providers(cached_providers, loaded).ok)
    /\ [][(req' = req /\ LastReloadFailed') => cached_providers' = cached_providers]_vars
    /\ [][\A t \in Tasks :
            (StepAt(t, "snapshot") /\ LastReloadFailed)
            => IF req'[t].pc = "done"
               THEN FilterKind(flatten_providers(provider_json), req[t].kind) = << >>
               ELSE req'[t].providers
                    = FilterKind(flatten_providers(provider_json), req[t].kind)]_vars

\* a request accepted after a failed reload is about to try the providers that
\* were loaded before it
C32_Witness ==
    /\ LastReloadFailed
    /\ cl[Watcher].arg = 0
    /\ provider_json # << >>
    /\ \E t \in Tasks :
        /\ req[t].pc = "sweep"
        /\ req[t].providers = FilterKind(flatten_providers(provider_json), req[t].kind)

\* ------------------------------------------ the store under both its callers
\* A route_request task and a direct caller of get / set / invalidate working on
\* one store, the registry as it was loaded at start.
FrameTasks == {"t1"}
FrameClients == {"c2"}
FrameNext ==
    \/ \E t \in FrameTasks, kind \in {"codex", "claude"}, body \in Bodies, headers \in Headers :
         RouteBegin(t, kind, body, headers)
    \/ \E t \in FrameTasks : RouteGetRemove(t)
    \/ \E t \in FrameTasks : RouteGetCount(t)
    \/ \E t \in FrameTasks : RouteSnapshot(t)
    \/ \E t \in FrameTasks, up \in UpstreamResults : RouteSticky(t, up)
    \/ \E t \in FrameTasks : RouteInvalidate(t)
    \/ \E t \in FrameTasks, up \in UpstreamResults : RouteSweep(t, up)
    \/ \E t \in FrameTasks : RouteExhausted(t)
    \/ \E t \in FrameTasks : RouteSetInsert(t)
    \/ \E c \in FrameClients, k \in StoreKeys : ApiGet(c, k)
    \/ \E c \in FrameClients : ApiGetRemove(c)
    \/ \E c \in FrameClients : ApiGetCount(c)
    \/ \E c \in FrameClients, k \in StoreKeys, p \in StoreProviderIds : ApiSet(c, k, p)
    \/ \E c \in FrameClients : ApiSetInsert(c)
    \/ \E c \in FrameClients, k \in StoreKeys : ApiInvalidate(c, k)
    \/ Tick

FrameSpec == Init /\ [][FrameNext]_vars

\* ---- C33
\* the keys of the calls that move in a step; a caller that repeats its last
\* call, with the same result, is back where it was
StepKeys ==
    {cl[c].key : c \in {d \in Clients : cl'[d] # cl[d]}}
    \cup {cl[c].key : c \in {d \in Clients : started' # started /\ cl' = cl /\ req' = req}}
    \cup {cl'[c].key : c \in {d \in Clients : cl'[d] # cl[d]}}
    \cup {IF req[t].pc \in {"idle", "done"} THEN req'[t].key ELSE req[t].key :
            t \in {u \in Tasks : req'[u] # req[u]}}

\* the keys a route_request can derive from the requests that arrive
RouteKeys ==
    { generate_key(extract_user_id(headers), kind, ModelOf(body)) :
        headers \in Headers, kind \in {"codex", "claude"}, body \in {b \in Bodies : b.json} }

\* a record for key k comes into the store by the insert of a set on k only
InsertsOf(k) ==
    \/ \E c \in Clients : cl[c].pc = "set_insert" /\ cl[c].key = k /\ cl'[c].pc = "idle"
    \/ \E t \in Tasks : req[t].pc = "set_insert" /\ req[t].key = k /\ req'[t].pc = "done"

\* C33: get, set and invalidate on a key, and every step of a route_request
\* whose derived key it is, leave the record of every other key as it was:
\* present or not, and with the same provider_id, expire_at and request_count.
\* So a record appears only by a set on its own key, and a get on a key that
\* was never set returns None.
C33_OtherKeysUntouched ==
    /\ [][\A k \in (DOMAIN store \cup DOMAIN store') \ StepKeys :
            k \in DOMAIN store /\ k \in DOMAIN store' /\ store'[k] = store[k]]_vars
    /\ [][\A k \in DOMAIN store' \ DOMAIN store : InsertsOf(k)]_vars
    /\ [](\A k \in StoreKeys \ RouteKeys :
            hist[k].set_p = None
            => /\ GetLookup(store, k, now).tag = "absent"
               /\ \A c \in Clients : (cl[c].op = "get" /\ cl[c].key = k) => cl[c].ret = None)

\* a route_request has set its key after a direct caller had set another one,
\* and the other key's record is as that caller wrote it
C33_Witness ==
    \E k \in DOMAIN store, j \in DOMAIN store, t \in Tasks, c \in Clients :
        /\ k # j
        /\ req[t].pc = "done" /\ req[t].outcome = "ok" /\ req[t].key = k
        /\ cl[c].pc = "idle" /\ cl[c].op = "set" /\ cl[c].key = j
        /\ store[k].expire_at > store[j].expire_at
        /\ store[j] = NewAffinity(hist[j].set_p, hist[j].set_t)

\* ---- C34
\* C34: when get(k) returns an identity p, the request_count it increments is
\* that of a record whose provider_id is p; get never returns one provider
\* while counting a record that names another.
C34_CountsTheReturnedRecord ==
    [][\A c \in Clients :
         (/\ cl[c].pc = "get_count" /\ cl'[c].pc = "idle"
          /\ cl[c].key \in DOMAIN store
          /\ store'[cl[c].key].request_count # store[cl[c].key].request_count)
         => store[cl[c].key].provider_id = cl[c].ret]_vars

\* ---- C35
\* C35: the invalidate that follows a failed attempt against the cached
\* provider removes only a record that names that provider; a record that
\* another caller has meanwhile set for the key to a different provider stays.
C35_InvalidatesOwnRecordOnly ==
    [][\A t \in Tasks :
         (/\ req[t].pc = "invalidate" /\ req'[t].pc = "sweep"
          /\ req[t].key \in DOMAIN store
          /\ req[t].key \notin DOMAIN store')
         => store[req[t].key].provider_id = req[t].cached]_vars

\* ------------------------------------------------ route_request, to its end
\* A route_request is a spawned tokio task: it is polled again whenever the
\* lock it waits for is granted (the RwLock queues its waiters) or its upstream
\* attempt has ended, so its next step is not put off forever.
RouteStep(t) ==
    \/ RouteGetRemove(t)
    \/ RouteGetCount(t)
    \/ RouteSnapshot(t)
    \/ \E up \in UpstreamResults : RouteSticky(t, up)
    \/ RouteInvalidate(t)
    \/ \E up \in UpstreamResults : RouteSweep(t, up)
    \/ RouteExhausted(t)
    \/ RouteSetInsert(t)

\* the request is inside route_request
Routing(r) == r.pc \in {"get_remove", "get_count", "snapshot"} \/ InFlight(r)

\* a step of the request's own task
RouteMoves(t) == Routing(req[t]) /\ req'[t] # req[t]

\* WF_vars(RouteStep(t)) for every task: RouteStep(t) is enabled exactly while
\* the request is inside route_request (each position has its step, the sweep
\* either a next candidate or the end of the loop), and each step moves the task
RouteFairness ==
    \A t \in Tasks : []<>(~Routing(req[t])) \/ []<><<RouteMoves(t)>>_vars

\* the requests, the clock, and one change of the configuration file while
\* they run
RouteLiveNext ==
    \/ \E t \in Tasks, kind \in {"codex", "claude"}, body \in Bodies, headers \in Headers :
         RouteBegin(t, kind, body, headers)
    \/ \E t \in Tasks : RouteStep(t)
    \/ ReloadProviders([ok |-> TRUE, providers |-> ConfigB])
    \/ Tick

RouteLiveSpec == Init /\ [][RouteLiveNext]_vars /\ RouteFairness

\* ---- C36
\* C36: a request attempts each provider of its snapshot at most once, so it
\* makes at most as many attempts as the snapshot has providers of its kind,
\* and, every attempt coming to an end, it returns: with a response, with the
\* no-providers error or with the exhaustion error.
C36_BoundedAttemptsAndReturn ==
    /\ [](\A t \in Tasks :
            LET att == Attempts(req[t]) IN
            InFlight(req[t]) =>
              /\ \A i \in 1..Len(att), j \in 1..Len(att) : att[i].i = att[j].i => i = j
              /\ \A i \in 1..Len(att) : att[i].i \in 1..Len(req[t].providers)
              /\ Len(att) <= Len(req[t].providers))
    /\ [](\A t \in Tasks :
            (req[t].pc = "done" /\ req[t].outcome = "all_failed") => req[t].tried <= req[t].n)
    /\ \A t \in Tasks :
         Routing(req[t])
         ~> (req[t].pc = "done" /\ req[t].outcome \in {"ok", "no_providers", "all_failed"})

\* a request that began with the cached provider has attempted the whole
\* snapshot, each provider once, and has returned the exhaustion error
C36_Witness ==
    \E t \in Tasks :
        /\ req[t].pc = "done" /\ req[t].outcome = "all_failed"
        /\ req[t].cached # None
        /\ req[t].n >= 2
        /\ req[t].tried = req[t].n

\* ------------------------------------------------ every lock, guard by guard
\* The route_request tasks, the cleanup task and the file watcher's task with
\* the two locks made visible: the store's RwLock (cache_affinity.rs line 16)
\* and the registry's RwLock (router.rs line 50).  A task is at .._wait while
\* its read().await / write().await has not returned; the guards it holds are
\* store_guard and reg_guard.  Here req holds the route_request tasks and cl
\* the two background tasks.
Sweeper == "c2"

SyncKey == generate_key(hash_string("sk-user-a"), "claude", "m1")

SyncIdle ==
    [pc |-> "idle", cached |-> None, providers |-> << >>, sticky |-> 0, idx |-> 0,
     chosen |-> 0, set_t |-> 0, store_guard |-> "none", reg_guard |-> "none"]

\* drop(guard), or the end of the guard's scope
dropForgotten(guard) == guard
drop(guard) == "none"

\* the call has returned; what is left of the guards it held
SyncReturned(r) ==
    [SyncIdle EXCEPT !.store_guard = drop(r.store_guard), !.reg_guard = drop(r.reg_guard)]

\* the guards held on each lock, by any task
StoreHeld ==
    ({req[t].store_guard : t \in Tasks} \cup {cl[c].store_guard : c \in Clients}) \ {"none"}
RegHeld ==
    ({req[t].reg_guard : t \in Tasks} \cup {cl[c].reg_guard : c \in Clients}) \ {"none"}

\* tokio RwLock: a read guard while no write guard is out, a write guard while
\* no guard is out
ReadGranted(held) == "write" \notin held
WriteGranted(held) == held = {}

\* the section a task enters when its store.write().await returns
WriteSection(pc) ==
    CASE pc = "remove_wait" -> "removing"
      [] pc = "count_wait" -> "counting"
      [] pc = "insert_wait" -> "inserting"
      [] pc = "invalidate_wait" -> "invalidating"
      [] pc = "retain_wait" -> "retaining"
      [] OTHER -> None

\* route_request is called and calls get: store.read().await, cache_affinity.rs line 38
SyncBegin(t) ==
    /\ req[t].pc = "idle"
    /\ started < MaxRequests
    /\ started' = started + 1
    /\ req' = [req EXCEPT ![t] = [SyncIdle EXCEPT !.pc = "get_read_wait"]]
    /\ UNCHANGED <<now, store, cached_providers, provider_json, cl, hist, cleaned>>

\* store.read().await returns
SyncStoreRead(t) ==
    /\ req[t].pc = "get_read_wait"
    /\ ReadGranted(StoreHeld)
    /\ req' = [req EXCEPT ![t].pc = "get_reading", ![t].store_guard = "read"]
    /\ UNCHANGED <<now, store, cached_providers, provider_json, cl, hist, cleaned, started>>

\* get, lines 40-57 and 72-75: the lookup, then drop(store) or the block's end
SyncGetLookup(t) ==
    /\ req[t].pc = "get_reading"
    /\ LET look == GetLookup(store, SyncKey, now) IN
       req' = [req EXCEPT ![t].store_guard = drop(@),
                          ![t].cached = look.provider_id,
                          ![t].pc = CASE look.tag = "absent" -> "reg_wait"
                                      [] look.tag = "expired" -> "remove_wait"
                                      [] look.tag = "valid" -> "count_wait"]
    /\ UNCHANGED <<now, store, cached_providers, provider_json, cl, hist, cleaned, started>>

\* store.write().await returns: lines 47 and 60 of get, 87 of set, 100 of invalidate
SyncStoreWrite(t) ==
    /\ WriteSection(req[t].pc) # None
    /\ WriteGranted(StoreHeld)
    /\ req' = [req EXCEPT ![t].pc = WriteSection(@), ![t].store_guard = "write"]
    /\ UNCHANGED <<now, store, cached_providers, provider_json, cl, hist, cleaned, started>>

\* get, lines 48-50; then route_request line 139: cached_providers.read().await
SyncGetRemove(t) ==
    /\ req[t].pc = "removing"
    /\ store' = GetRemove(store, SyncKey)
    /\ req' = [req EXCEPT ![t].pc = "reg_wait", ![t].store_guard = drop(@)]
    /\ UNCHANGED <<now, cached_providers, provider_json, cl, hist, cleaned, started>>

\* get, lines 61-71; then route_request line 139
SyncGetCount(t) ==
    /\ req[t].pc = "counting"
    /\ store' = GetCount(store, SyncKey)
    /\ req' = [req EXCEPT ![t].pc = "reg_wait", ![t].store_guard = drop(@)]
    /\ UNCHANGED <<now, cached_providers, provider_json, cl, hist, cleaned, started>>

\* cached_providers.read().await returns, route_request line 139
SyncRegRead(t) ==
    /\ req[t].pc = "reg_wait"
    /\ ReadGranted(RegHeld)
    /\ req' = [req EXCEPT ![t].pc = "reg_reading", ![t].reg_guard = "read"]
    /\ UNCHANGED <<now, store, cached_providers, provider_json, cl, hist, cleaned, started>>

\* route_request, lines 140-165: the clone, drop(providers_lock), the empty
\* test, the sticky lookup
SyncSnapshot(t) ==
    /\ req[t].pc = "reg_reading"
    /\ LET providers == FilterKind(cached_providers, "claude") IN
       req' = [req EXCEPT ![t] =
                 IF providers = << >>
                 THEN SyncReturned(@)
                 ELSE [@ EXCEPT !.pc = "attempt", !.reg_guard = drop(@),
                                !.providers = providers,
                                !.sticky = FindCached(providers, req[t].cached),
                                !.idx = 1]]
    /\ UNCHANGED <<now, store, cached_providers, provider_json, cl, hist, cleaned, started>>

\* route_request, lines 166-247: try_provider(..).await ends, with a response
\* or with an error; or the loop is over
SyncAttempt(t, ok) ==
    /\ req[t].pc = "attempt"
    /\ LET i == IF req[t].sticky # 0 THEN req[t].sticky
                ELSE NextCandidate(req[t].providers, req[t].cached, req[t].idx)
       IN req' = [req EXCEPT ![t] =
                    IF i = 0 THEN SyncReturned(@)
                    ELSE IF ok
                    THEN [@ EXCEPT !.pc = "insert_wait", !.chosen = i, !.set_t = now]
                    ELSE IF req[t].sticky # 0
                    THEN [@ EXCEPT !.pc = "invalidate_wait"]
                    ELSE [@ EXCEPT !.idx = i + 1]]
    /\ UNCHANGED <<now, store, cached_providers, provider_json, cl, hist, cleaned, started>>

\* invalidate, lines 101-103; then the sweep
SyncInvalidate(t) ==
    /\ req[t].pc = "invalidating"
    /\ store' = Invalidate(store, SyncKey)
    /\ req' = [req EXCEPT ![t].pc = "attempt", ![t].sticky = 0, ![t].store_guard = drop(@)]
    /\ UNCHANGED <<now, cached_providers, provider_json, cl, hist, cleaned, started>>

\* set, line 88; then return Ok(response)
SyncSetInsert(t) ==
    /\ req[t].pc = "inserting"
    /\ store' = SetInsert(store, SyncKey,
                          NewAffinity(provider_id(req[t].providers[req[t].chosen]),
                                      req[t].set_t))
    /\ req' = [req EXCEPT ![t] = SyncReturned(@)]
    /\ UNCHANGED <<now, cached_providers, provider_json, cl, hist, cleaned, started>>

\* start_cleanup_task, lines 112-116: the ticker fires, store.write().await
SweepWake ==
    /\ cl[Sweeper].pc = "idle"
    /\ started < MaxRequests
    /\ started' = started + 1
    /\ cl' = [cl EXCEPT ![Sweeper].pc = "retain_wait"]
    /\ UNCHANGED <<now, store, cached_providers, provider_json, req, hist, cleaned>>

\* store.write().await returns, line 116
SweepStoreWrite ==
    /\ cl[Sweeper].pc = "retain_wait"
    /\ WriteGranted(StoreHeld)
    /\ cl' = [cl EXCEPT ![Sweeper].pc = "retaining", ![Sweeper].store_guard = "write"]
    /\ UNCHANGED <<now, store, cached_providers, provider_json, req, hist, cleaned, started>>

\* start_cleanup_task, lines 117-127: the pass, the end of the loop's body
SweepRetain ==
    /\ cl[Sweeper].pc = "retaining"
    /\ store' = CleanupRetain(store, now)
    /\ LET removed == Cardinality(DOMAIN store) - Cardinality(DOMAIN store') IN
         cleaned' = IF removed > 0
                    THEN [removed |-> removed, remaining |-> Cardinality(DOMAIN store')]
                    ELSE cleaned
    /\ cl' = [cl EXCEPT ![Sweeper] = SyncReturned(@)]
    /\ UNCHANGED <<now, cached_providers, provider_json, req, hist, started>>

\* reload_providers, lines 58-60: the load, then cached_providers.write().await
WatchReload(loaded) ==
    /\ cl[Watcher].pc = "idle"
    /\ started < MaxRequests
    /\ started' = started + 1
    /\ loaded.ok
    /\ cl' = [cl EXCEPT ![Watcher].pc = "assign_wait", ![Watcher].providers = loaded.providers]
    /\ UNCHANGED <<now, store, cached_providers, provider_json, req, hist, cleaned>>

\* cached_providers.write().await returns, line 60
WatchRegWrite ==
    /\ cl[Watcher].pc = "assign_wait"
    /\ WriteGranted(RegHeld)
    /\ cl' = [cl EXCEPT ![Watcher].pc = "assigning", ![Watcher].reg_guard = "write"]
    /\ UNCHANGED <<now, store, cached_providers, provider_json, req, hist, cleaned, started>>

\* reload_providers, lines 61-64: *cache = providers, return
WatchAssign ==
    /\ cl[Watcher].pc = "assigning"
    /\ provider_json' = cl[Watcher].providers
    /\ cached_providers' = flatten_providers(provider_json')
    /\ cl' = [cl EXCEPT ![Watcher] = SyncReturned(@)]
    /\ UNCHANGED <<now, store, req, hist, cleaned, started>>

SyncInit ==
    /\ now = 0
    /\ store = << >>
    /\ \E loaded \in LoadResults :
         /\ provider_json = IF loaded.ok THEN loaded.providers ELSE << >>
         /\ cached_providers = new_providers(loaded)
    /\ req = [t \in Tasks |-> SyncIdle]
    /\ cl = [c \in Clients |-> SyncIdle]
    /\ hist = [k \in StoreKeys |-> NoHist]
    /\ cleaned = [removed |-> 0, remaining |-> 0]
    /\ started = 0

\* a step of a route_request that has been called
SyncStep(t) ==
    \/ SyncStoreRead(t)
    \/ SyncGetLookup(t)
    \/ SyncStoreWrite(t)
    \/ SyncGetRemove(t)
    \/ SyncGetCount(t)
    \/ SyncRegRead(t)
    \/ SyncSnapshot(t)
    \/ \E ok \in BOOLEAN : SyncAttempt(t, ok)
    \/ SyncInvalidate(t)
    \/ SyncSetInsert(t)

SweepStep == SweepStoreWrite \/ SweepRetain
WatchStep == WatchRegWrite \/ WatchAssign

SyncNext ==
    \/ \E t \in Tasks : SyncBegin(t)
    \/ \E t \in Tasks : SyncStep(t)
    \/ SweepWake
    \/ SweepStep
    \/ \E loaded \in LoadResults : WatchReload(loaded)
    \/ WatchStep
    \/ Tick

\* every task is polled again when what it waits for is there: the locks
\* queue their waiters, and each upstream attempt ends
SyncFairness ==
    /\ \A t \in Tasks : WF_vars(SyncStep(t))
    /\ WF_vars(SweepStep)
    /\ WF_vars(WatchStep)

SyncSpec == SyncInit /\ [][SyncNext]_vars /\ SyncFairness

\* ---- C37
\* the tasks, whichever variable holds them
SyncRecords == {req[t] : t \in Tasks} \cup {cl[c] : c \in Clients}

\* the task waits for a lock
LockWaits(r) ==
    r.pc \in {"get_read_wait", "remove_wait", "count_wait", "insert_wait",
              "invalidate_wait", "retain_wait", "reg_wait", "assign_wait"}

\* C37: no task waits for the store's write lock while it holds the store's
\* read guard, and no task holds a guard of the store or of the registry while
\* its upstream attempt is under way; so the route_request tasks, the reloads
\* and the cleanup task never block one another for good: every task that
\* waits for a lock gets it.
C37_LocksNeverStick ==
    /\ [](\A r \in SyncRecords : WriteSection(r.pc) # None => r.store_guard = "none")
    /\ [](\A r \in SyncRecords :
            r.pc = "attempt" => (r.store_guard = "none" /\ r.reg_guard = "none"))
    /\ \A t \in Tasks : LockWaits(req[t]) ~> ~LockWaits(req[t])
    /\ \A c \in Clients : LockWaits(cl[c]) ~> ~LockWaits(cl[c])

\* a request waits for the registry's read guard while the watcher holds its
\* write guard
C37_Witness ==
    \E t \in Tasks :
        /\ req[t].pc = "reg_wait"
        /\ cl[Watcher].reg_guard = "write"

====
